---- MODULE Spec2Model ----
(***************************************************************************)
(* A model of the FBref table scraper: the header normalizer, the header   *)
(* matrix builder, the row extractor, the table locator and the table-set  *)
(* extraction entry points, with the request handler that reports the      *)
(* missing table types.                                                    *)
(*                                                                         *)
(* Python values are modelled as follows.  A str is a TLA+ string; its     *)
(* methods (lower, strip, split, in, startswith, ...) are operators over   *)
(* the characters of the string.  A dict is a function whose DOMAIN is its *)
(* key set.  A list is a sequence; Python's 0-based indices are kept in    *)
(* the cursors (col_idx, row_idx) and shifted by one where a sequence is   *)
(* read.  An HTML attribute is a record [present, val]: val is the raw     *)
(* attribute text, which int() has to parse.  An exception is the value    *)
(* err = TRUE of the result record of the operator that raised it.         *)
(***************************************************************************)
EXTENDS Integers, Sequences, FiniteSets, TLC

----------------------------------------------------------------------------
(* Python str *)

UpperAlphabet == "ABCDEFGHIJKLMNOPQRSTUVWXYZ"
LowerAlphabet == "abcdefghijklmnopqrstuvwxyz"
DigitAlphabet == "0123456789"

CharAt(s, i) == SubSeq(s, i, i)

CharsOf(s) == {CharAt(s, i) : i \in 1..Len(s)}

UpperChars == CharsOf(UpperAlphabet)
LowerChars == CharsOf(LowerAlphabet)
DigitChars == CharsOf(DigitAlphabet)

IndexIn(alphabet, c) == CHOOSE i \in 1..Len(alphabet) : CharAt(alphabet, i) = c

\* str.lower() of one character
LowerChar(c) ==
    IF c \in UpperChars
    THEN CharAt(LowerAlphabet, IndexIn(UpperAlphabet, c))
    ELSE c

\* str.upper() of one character
UpperChar(c) ==
    IF c \in LowerChars
    THEN CharAt(UpperAlphabet, IndexIn(LowerAlphabet, c))
    ELSE c

RECURSIVE Lower(_)
\* str.lower()
Lower(s) ==
    IF s = "" THEN ""
    ELSE LowerChar(CharAt(s, 1)) \o Lower(SubSeq(s, 2, Len(s)))

\* p in s
Contains(s, p) ==
    \E i \in 1..(Len(s) - Len(p) + 1) : SubSeq(s, i, i + Len(p) - 1) = p

\* s.startswith(p)
StartsWith(s, p) == Len(p) <= Len(s) /\ SubSeq(s, 1, Len(p)) = p

\* s.endswith(p)
EndsWith(s, p) ==
    Len(p) <= Len(s) /\ SubSeq(s, Len(s) - Len(p) + 1, Len(s)) = p

RECURSIVE LStrip(_)
LStrip(s) ==
    IF s # "" /\ CharAt(s, 1) = " " THEN LStrip(SubSeq(s, 2, Len(s))) ELSE s

RECURSIVE RStrip(_)
RStrip(s) ==
    IF s # "" /\ CharAt(s, Len(s)) = " "
    THEN RStrip(SubSeq(s, 1, Len(s) - 1)) ELSE s

\* str.strip(); the blank is the whitespace character of the model
Strip(s) == RStrip(LStrip(s))

\* the length of the first word of a string that starts with a non-blank
RECURSIVE WordLen(_)
WordLen(s) ==
    IF s = "" \/ CharAt(s, 1) = " " THEN 0
    ELSE 1 + WordLen(SubSeq(s, 2, Len(s)))

RECURSIVE Split(_)
\* str.split(): the maximal runs of non-blank characters
Split(s) ==
    LET t == LStrip(s)
    IN IF t = "" THEN <<>>
       ELSE <<SubSeq(t, 1, WordLen(t))>>
            \o Split(SubSeq(t, WordLen(t) + 1, Len(t)))

RECURSIVE Join(_, _)
\* sep.join(words)
Join(sep, words) ==
    IF words = <<>> THEN ""
    ELSE IF Len(words) = 1 THEN words[1]
    ELSE words[1] \o sep \o Join(sep, Tail(words))

\* str.isupper(): some cased character, and no lowercase one
IsUpper(s) ==
    /\ \E i \in 1..Len(s) : CharAt(s, i) \in UpperChars
    /\ \A i \in 1..Len(s) : CharAt(s, i) \notin LowerChars

\* str.islower(): some cased character, and no uppercase one
IsLower(s) ==
    /\ \E i \in 1..Len(s) : CharAt(s, i) \in LowerChars
    /\ \A i \in 1..Len(s) : CharAt(s, i) \notin UpperChars

\* str.capitalize(): first character upper, the rest lower
Capitalize(s) ==
    IF s = "" THEN ""
    ELSE UpperChar(CharAt(s, 1)) \o Lower(SubSeq(s, 2, Len(s)))

CapitalizeAll(words) == [i \in 1..Len(words) |-> Capitalize(words[i])]

RECURSIVE DigitsValue(_, _)
\* the value of a string of decimal digits, read left to right
DigitsValue(s, acc) ==
    IF s = "" THEN acc
    ELSE DigitsValue(SubSeq(s, 2, Len(s)),
                     10 * acc + (IndexIn(DigitAlphabet, CharAt(s, 1)) - 1))

\* int(s) for a str s: the value, or ValueError (ok = FALSE) when s is not
\* an optionally signed, blank-padded string of decimal digits
IntOf(s) ==
    LET t == Strip(s)
        neg == t # "" /\ CharAt(t, 1) = "-"
        signed == t # "" /\ CharAt(t, 1) \in {"-", "+"}
        d == IF signed THEN SubSeq(t, 2, Len(t)) ELSE t
    IN IF d # "" /\ CharsOf(d) \subseteq DigitChars
       THEN [ok |-> TRUE,
             val |-> IF neg THEN 0 - DigitsValue(d, 0) ELSE DigitsValue(d, 0)]
       ELSE [ok |-> FALSE, val |-> 0]

----------------------------------------------------------------------------
(* Header normalizer *)

\* field_mapping, in the order of the dict literal
field_mapping ==
    << <<"rk", "Rk">>, <<"rank", "Rk">>, <<"squad", "Squad">>,
       <<"team", "Squad">>, <<"mp", "MP">>, <<"matches played", "MP">>,
       <<"w", "W">>, <<"wins", "W">>, <<"d", "D">>, <<"draws", "D">>,
       <<"l", "L">>, <<"losses", "L">>, <<"gf", "GF">>,
       <<"goals for", "GF">>, <<"ga", "GA">>, <<"goals against", "GA">>,
       <<"gd", "GD">>, <<"goal difference", "GD">>, <<"pts", "Pts">>,
       <<"points", "Pts">>, <<"pts/mp", "Pts/MP">>, <<"pts / mp", "Pts/MP">>,
       <<"points per match", "Pts/MP">>, <<"xg", "xG">>,
       <<"expected goals", "xG">>, <<"xga", "xGA">>,
       <<"expected goals against", "xGA">>, <<"xgd", "xGD">>,
       <<"expected goal difference", "xGD">>, <<"xgd/90", "xGD/90">>,
       <<"xgd /90", "xGD/90">>, <<"xgd / 90", "xGD/90">>,
       <<"last 5", "Last 5">>, <<"last5", "Last 5">>,
       <<"last five", "Last 5">>, <<"attendance", "Attendance">>,
       <<"top team scorer", "Top Team Scorer">>,
       <<"top scorer", "Top Team Scorer">>, <<"goalkeeper", "Goalkeeper">>,
       <<"gk", "Goalkeeper">> >>

\* header_lower in field_mapping
InFieldMapping(k) == \E i \in 1..Len(field_mapping) : field_mapping[i][1] = k

\* field_mapping[header_lower]
FieldMappingAt(k) ==
    field_mapping[CHOOSE i \in 1..Len(field_mapping) :
                      field_mapping[i][1] = k][2]

\* the rules after the exact lookup that all normalizers share: the
\* compound fields, then the capitalisation of a one-case header
CompoundOrCase(header, header_lower) ==
    IF Contains(header_lower, "pts") /\ Contains(header_lower, "mp")
    THEN "Pts/MP"
    ELSE IF Contains(header_lower, "xgd") /\ Contains(header_lower, "90")
    THEN "xGD/90"
    ELSE IF Contains(header_lower, "last") /\ Contains(header_lower, "5")
    THEN "Last 5"
    ELSE IF Contains(header_lower, "top") /\ Contains(header_lower, "scorer")
    THEN "Top Team Scorer"
    ELSE IF IsUpper(header) \/ IsLower(header)
    THEN IF Len(Split(header)) > 1
         THEN Join(" ", CapitalizeAll(Split(header)))
         ELSE Capitalize(header)
    ELSE header

\* a normalizer whose exact lookup takes the header text as it is written
NormalizeHeaderNameAsWritten(raw) ==
    IF raw = "" THEN raw
    ELSE IF InFieldMapping(raw) THEN FieldMappingAt(raw)
    ELSE CompoundOrCase(raw, Strip(Lower(raw)))

\* _normalize_header_name of api/fbref-extract.py
NormalizeHeaderName(raw) ==
    IF raw = "" THEN raw
    ELSE LET Lookup(header, header_lower) ==
                 IF InFieldMapping(header_lower)
                 THEN FieldMappingAt(header_lower)
                 ELSE CompoundOrCase(header, header_lower)
             Collapsed(header) == Lookup(header, Strip(Lower(header)))
         IN Collapsed(Join(" ", Split(raw)))

\* the keys of field_mapping that the pattern loop of scraper.py accepts
\* for header_lower: longer than two characters and a prefix or a suffix
PatternKeys(header_lower) ==
    {i \in 1..Len(field_mapping) :
        /\ Contains(header_lower, field_mapping[i][1])
        /\ Len(field_mapping[i][1]) > 2
        /\ \/ StartsWith(header_lower, field_mapping[i][1])
           \/ EndsWith(header_lower, field_mapping[i][1])}

\* _normalize_header_name of App Scraper/scraper.py: the exact lookup, then
\* the first key of field_mapping that the pattern loop accepts
NormalizeHeaderNameCli(raw) ==
    IF raw = "" THEN raw
    ELSE LET Partial(header, header_lower, hits) ==
                 IF hits # {}
                 THEN field_mapping[CHOOSE i \in hits :
                                       \A j \in hits : i <= j][2]
                 ELSE CompoundOrCase(header, header_lower)
             Lookup(header, header_lower) ==
                 IF InFieldMapping(header_lower)
                 THEN FieldMappingAt(header_lower)
                 ELSE Partial(header, header_lower,
                              PatternKeys(header_lower))
             Collapsed(header) == Lookup(header, Strip(Lower(header)))
         IN Collapsed(Join(" ", Split(raw)))

\* the implementations of the repository: the serverless route
\* api/fbref-extract.py, the command line scraper App Scraper/scraper.py and
\* its Selenium variant App Scraper/scraper_selenium.py, whose normalizer is
\* the one of scraper.py
Api == "api"
Cli == "cli"
Selenium == "selenium"

\* self._normalize_header_name of the implementation
Normalize(impl, raw) ==
    IF impl \in {Cli, Selenium} THEN NormalizeHeaderNameCli(raw)
    ELSE NormalizeHeaderName(raw)

----------------------------------------------------------------------------
(* The parsed document *)

\* an attribute that the element does not carry, and one it carries
NoAttr == [present |-> FALSE, val |-> ""]
Attr(v) == [present |-> TRUE, val |-> v]

\* a th/td element: its text and its colspan and rowspan attributes
Cell(text, colspan, rowspan) ==
    [text |-> text, colspan |-> colspan, rowspan |-> rowspan]

\* a tr element: its class tokens (none: no class attribute) and its cells
Row(cls, cells) == [cls |-> cls, cells |-> cells]

\* a table element: id attribute, class tokens, the rows of its thead and
\* the rows of its tbody (of the table itself when it has no tbody)
Table(id, cls, hasThead, headRows, hasTbody, bodyRows) ==
    [id |-> id, cls |-> cls, hasThead |-> hasThead, headRows |-> headRows,
     hasTbody |-> hasTbody, bodyRows |-> bodyRows]

\* table.find_all('tr'): every row of the table, in document order
AllRows(table) == table.headRows \o table.bodyRows

\* int(cell.get('colspan', 1)): 1 without the attribute, else int() of it
SpanOf(attr) ==
    IF attr.present THEN IntOf(attr.val) ELSE [ok |-> TRUE, val |-> 1]

\* cell.get_text(strip=True)
TextOf(cell) == Strip(cell.text)

Min(a, b) == IF a <= b THEN a ELSE b
Max(a, b) == IF a >= b THEN a ELSE b

----------------------------------------------------------------------------
(* Header matrix builder *)

RECURSIVE SumColspans(_, _)
\* col_count of one header row: the sum of the colspans of cells k..
SumColspans(cells, k) ==
    IF k > Len(cells) THEN 0
    ELSE SpanOf(cells[k].colspan).val + SumColspans(cells, k + 1)

\* the colspan of some cell of the rows does not parse: int() raises
ColspanRaises(rows) ==
    \E r \in 1..Len(rows) : \E k \in 1..Len(rows[r].cells) :
        ~SpanOf(rows[r].cells[k].colspan).ok

RECURSIVE MaxColsCells(_, _)
\* a max_cols that counts the cells of a header row, whatever they span
MaxColsCells(header_rows, r) ==
    IF r > Len(header_rows) THEN 0
    ELSE Max(Len(header_rows[r].cells), MaxColsCells(header_rows, r + 1))

RECURSIVE MaxColsFrom(_, _)
\* max_cols over header rows r..
MaxColsFrom(header_rows, r) ==
    IF r > Len(header_rows) THEN 0
    ELSE Max(SumColspans(header_rows[r].cells, 1),
             MaxColsFrom(header_rows, r + 1))

\* header_matrix = [[''] * max_cols for _ in range(len(header_rows))]
EmptyMatrix(n_rows, max_cols) ==
    [r \in 1..n_rows |-> [c \in 1..max_cols |-> ""]]

RECURSIVE SkipFilled(_, _, _, _)
\* while col_idx < max_cols and header_matrix[row_idx][col_idx]: col_idx += 1
SkipFilled(matrix, row_idx, col_idx, max_cols) ==
    IF col_idx < max_cols /\ matrix[row_idx + 1][col_idx + 1] # ""
    THEN SkipFilled(matrix, row_idx, col_idx + 1, max_cols)
    ELSE col_idx

\* two nested loops that write cell_text into every position of the
\* rectangle of the cell
PaintOver(matrix, row_idx, col_idx, colspan, rowspan, cell_text, max_cols) ==
    [r \in 1..Len(matrix) |->
        [c \in 1..max_cols |->
            IF /\ r - 1 >= row_idx
               /\ r - 1 < Min(row_idx + rowspan, Len(matrix))
               /\ c - 1 >= col_idx
               /\ c - 1 < Min(col_idx + colspan, max_cols)
            THEN cell_text
            ELSE matrix[r][c]]]

\* the two nested loops that write cell_text into the still empty
\* positions of the rectangle of the cell
Paint(matrix, row_idx, col_idx, colspan, rowspan, cell_text, max_cols) ==
    [r \in 1..Len(matrix) |->
        [c \in 1..max_cols |->
            IF /\ r - 1 >= row_idx
               /\ r - 1 < Min(row_idx + rowspan, Len(matrix))
               /\ c - 1 >= col_idx
               /\ c - 1 < Min(col_idx + colspan, max_cols)
               /\ matrix[r][c] = ""
            THEN cell_text
            ELSE matrix[r][c]]]

\* one iteration of the loop over the cells of a header row; st holds the
\* matrix, the cursor, whether the loop has hit its break and whether
\* int() has raised
PlaceCell(st, row_idx, cell, max_cols) ==
    LET Put(at, colspan, rowspan) ==
            IF at >= max_cols
            THEN [st EXCEPT !.col_idx = at, !.stop = TRUE]
            ELSE IF ~colspan.ok \/ ~rowspan.ok
            THEN [st EXCEPT !.col_idx = at, !.err = TRUE]
            ELSE [st EXCEPT
                     !.matrix = Paint(st.matrix, row_idx, at, colspan.val,
                                      rowspan.val, TextOf(cell), max_cols),
                     !.col_idx = at + colspan.val]
    IN Put(SkipFilled(st.matrix, row_idx, st.col_idx, max_cols),
           SpanOf(cell.colspan), SpanOf(cell.rowspan))

RECURSIVE FillRow(_, _, _, _, _)
\* the loop over the cells k.. of header row row_idx
FillRow(st, row_idx, cells, k, max_cols) ==
    IF k > Len(cells) \/ st.stop \/ st.err THEN st
    ELSE FillRow(PlaceCell(st, row_idx, cells[k], max_cols),
                 row_idx, cells, k + 1, max_cols)

RECURSIVE FillMatrix(_, _, _, _)
\* the loop over the header rows row_idx..; every row starts at col_idx 0
FillMatrix(st, header_rows, row_idx, max_cols) ==
    IF row_idx >= Len(header_rows) \/ st.err THEN st
    ELSE FillMatrix(
            FillRow([st EXCEPT !.col_idx = 0, !.stop = FALSE], row_idx,
                    header_rows[row_idx + 1].cells, 1, max_cols),
            header_rows, row_idx + 1, max_cols)

\* header_matrix after the fill, with err when int() raised on the way
HeaderMatrix(header_rows) ==
    LET max_cols == MaxColsFrom(header_rows, 1)
    IN FillMatrix([matrix |-> EmptyMatrix(Len(header_rows), max_cols),
                   col_idx |-> 0, stop |-> FALSE, err |-> FALSE],
                  header_rows, 0, max_cols)

RECURSIVE UniqueFrom(_, _, _)
\* unique_headers: the non-empty texts of a column, first occurrences only
UniqueFrom(texts, k, acc) ==
    IF k > Len(texts) THEN acc
    ELSE IF texts[k] # "" /\ \A j \in 1..Len(acc) : acc[j] # texts[k]
    THEN UniqueFrom(texts, k + 1, Append(acc, texts[k]))
    ELSE UniqueFrom(texts, k + 1, acc)

known_categories ==
    {"Playing Time", "Performance", "Expected", "Progression",
     "Per 90 Minutes"}

\* 'col_<n>'
ColName(n) == "col_" \o ToString(n)

\* a combination policy that tries the 'last text alone' rules before the
\* '<first>_<last>' rule of the standard table
CombinedHeaderLastRulesFirst(unique_headers, col_idx, table_name) ==
    LET last_header == unique_headers[Len(unique_headers)]
        first_header == unique_headers[1]
    IN IF Len(unique_headers) = 1 THEN Strip(first_header)
       ELSE IF Len(unique_headers) > 2 THEN Strip(last_header)
       ELSE IF \/ Contains(last_header, "/")
               \/ last_header \in {"xG", "xGA", "xGD", "xGD/90", "Last 5"}
       THEN Strip(last_header)
       ELSE IF /\ table_name = "standard_for"
               /\ Strip(first_header) \in known_categories
       THEN Strip(first_header) \o "_" \o Strip(last_header)
       ELSE IF /\ first_header \in {"Expected", "Goals", "Points"}
               /\ first_header \notin known_categories
       THEN Strip(last_header)
       ELSE Strip(first_header \o " " \o last_header)

\* a combination policy that runs its rules on every column with two or
\* more distinct texts
CombinedHeaderAnyCount(unique_headers, col_idx, table_name) ==
    LET last_header == unique_headers[Len(unique_headers)]
        first_header == unique_headers[1]
    IN IF Len(unique_headers) = 1 THEN Strip(first_header)
       ELSE IF /\ table_name = "standard_for"
               /\ Strip(first_header) \in known_categories
               /\ Len(unique_headers) = 2
       THEN Strip(first_header) \o "_" \o Strip(last_header)
       ELSE IF \/ Contains(last_header, "/")
               \/ last_header \in {"xG", "xGA", "xGD", "xGD/90", "Last 5"}
       THEN Strip(last_header)
       ELSE IF /\ first_header \in {"Expected", "Goals", "Points"}
               /\ first_header \notin known_categories
       THEN Strip(last_header)
       ELSE Strip(first_header \o " " \o last_header)

\* a combination policy without the rule on the first texts Expected,
\* Goals and Points
CombinedHeaderNoFirstTextRule(unique_headers, col_idx, table_name) ==
    LET last_header == unique_headers[Len(unique_headers)]
        first_header == unique_headers[1]
    IN IF Len(unique_headers) = 1 THEN Strip(first_header)
       ELSE IF Len(unique_headers) > 2 THEN Strip(last_header)
       ELSE IF /\ table_name = "standard_for"
               /\ Strip(first_header) \in known_categories
       THEN Strip(first_header) \o "_" \o Strip(last_header)
       ELSE IF \/ Contains(last_header, "/")
               \/ last_header \in {"xG", "xGA", "xGD", "xGD/90", "Last 5"}
       THEN Strip(last_header)
       ELSE Strip(first_header \o " " \o last_header)

\* combined_header of one column before normalization
CombinedHeader(unique_headers, col_idx, table_name) ==
    LET last_header == unique_headers[Len(unique_headers)]
        first_header == unique_headers[1]
    IN IF Len(unique_headers) > 1
       THEN IF Strip(last_header) = ""
            THEN IF Strip(first_header) # "" THEN Strip(first_header)
                 ELSE ColName(col_idx)
            ELSE IF /\ Strip(first_header) # ""
                    /\ first_header # last_header
                    /\ Len(unique_headers) = 2
            THEN IF /\ table_name = "standard_for"
                    /\ Strip(first_header) \in known_categories
                    /\ Strip(last_header) # ""
                 THEN Strip(first_header) \o "_" \o Strip(last_header)
                 ELSE IF \/ Contains(last_header, "/")
                         \/ last_header \in
                                {"xG", "xGA", "xGD", "xGD/90", "Last 5"}
                 THEN Strip(last_header)
                 ELSE IF /\ first_header \in {"Expected", "Goals", "Points"}
                         /\ first_header \notin known_categories
                 THEN Strip(last_header)
                 ELSE Strip(first_header \o " " \o last_header)
            ELSE Strip(last_header)
       ELSE Strip(unique_headers[1])

\* the name of column col_idx of the matrix
ColumnHeader(matrix, col_idx, table_name, impl) ==
    LET texts == [r \in 1..Len(matrix) |-> matrix[r][col_idx + 1]]
        unique_headers == UniqueFrom(texts, 1, <<>>)
    IN IF unique_headers # <<>>
       THEN Normalize(impl,
                      CombinedHeader(unique_headers, col_idx, table_name))
       ELSE ColName(col_idx)

\* headers as the thead gives them: empty without a thead or without rows
\* in it; err when int() raised
TheadHeaders(table, table_name, impl) ==
    IF ~table.hasThead \/ table.headRows = <<>>
    THEN [err |-> FALSE, headers |-> <<>>]
    ELSE IF ColspanRaises(table.headRows)
    THEN [err |-> TRUE, headers |-> <<>>]
    ELSE LET Combined(filled, max_cols) ==
                 IF filled.err THEN [err |-> TRUE, headers |-> <<>>]
                 ELSE [err |-> FALSE,
                       headers |-> [c \in 1..max_cols |->
                           ColumnHeader(filled.matrix, c - 1, table_name,
                                        impl)]]
         IN Combined(HeaderMatrix(table.headRows),
                     MaxColsFrom(table.headRows, 1))

RECURSIVE RepeatFirstPlain(_, _, _, _)
\* a replication whose first copy is the text without suffix
RepeatFirstPlain(headers, header_text, colspan, left) ==
    IF left <= 0 THEN headers
    ELSE RepeatFirstPlain(
            Append(headers,
                   IF left = colspan THEN header_text
                   ELSE header_text \o "_" \o ToString(Len(headers))),
            header_text, colspan, left - 1)

RECURSIVE Repeat(_, _, _, _)
\* for _ in range(colspan): headers.append(header_text if colspan == 1
\*                                  else f'{header_text}_{len(headers)}')
Repeat(headers, header_text, colspan, left) ==
    IF left <= 0 THEN headers
    ELSE Repeat(Append(headers,
                       IF colspan = 1 THEN header_text
                       ELSE header_text \o "_" \o ToString(Len(headers))),
                header_text, colspan, left - 1)

RECURSIVE FirstRowHeaders(_, _, _)
\* the loop over the cells k.. of first_row
FirstRowHeaders(st, cells, k) ==
    IF k > Len(cells) \/ st.err THEN st
    ELSE LET Add(colspan, header_text) ==
                 IF ~colspan.ok THEN [st EXCEPT !.err = TRUE]
                 ELSE FirstRowHeaders(
                         [st EXCEPT !.headers =
                             Repeat(st.headers, header_text, colspan.val,
                                    colspan.val)],
                         cells, k + 1)
         IN Add(SpanOf(cells[k].colspan),
                IF TextOf(cells[k]) = "" THEN ColName(Len(st.headers))
                ELSE TextOf(cells[k]))

\* headers = [f'col_{i}' for i in range(num_cols)]
GenericHeaders(num_cols) == [i \in 1..num_cols |-> ColName(i - 1)]

\* first_data_row: the first row of the tbody, else the first row of the
\* table; <<>> stands for no row
FirstDataRow(table) ==
    IF table.hasTbody /\ table.bodyRows # <<>> THEN <<table.bodyRows[1]>>
    ELSE IF AllRows(table) # <<>> THEN <<AllRows(table)[1]>>
    ELSE <<>>

\* headers when the thead gave none: from the first row of the table, and
\* failing that col_0.. sized to the first data row
FallbackHeaders(table) ==
    LET OrGeneric(fromFirst) ==
            IF fromFirst.err \/ fromFirst.headers # <<>> THEN fromFirst
            ELSE IF FirstDataRow(table) = <<>> THEN fromFirst
            ELSE [err |-> FALSE,
                  headers |->
                      GenericHeaders(Len(FirstDataRow(table)[1].cells))]
    IN OrGeneric(IF AllRows(table) = <<>>
                 THEN [err |-> FALSE, headers |-> <<>>]
                 ELSE FirstRowHeaders([err |-> FALSE, headers |-> <<>>],
                                      AllRows(table)[1].cells, 1))

\* the header list before the rows are read
BuildHeaders(table, table_name, impl) ==
    LET OrFallback(fromThead) ==
            IF fromThead.err \/ fromThead.headers # <<>> THEN fromThead
            ELSE FallbackHeaders(table)
    IN OrFallback(TheadHeaders(table, table_name, impl))

----------------------------------------------------------------------------
(* Row extractor *)

\* the test that skips a repeated header row: the row has a class and
\* 'thead' occurs in the blank-joined class string
IsRepeatedHeader(row) ==
    row.cls # <<>> /\ Contains(Join(" ", row.cls), "thead")

RECURSIVE GrowHeadersByCursor(_, _)
\* a growth that names the new entries after the cursor
GrowHeadersByCursor(headers, col_idx) ==
    IF col_idx >= Len(headers)
    THEN GrowHeadersByCursor(Append(headers, ColName(col_idx)), col_idx)
    ELSE headers

RECURSIVE GrowHeaders(_, _)
\* while col_idx >= len(headers): headers.append(f'col_{len(headers)}')
GrowHeaders(headers, col_idx) ==
    IF col_idx >= Len(headers)
    THEN GrowHeaders(Append(headers, ColName(Len(headers))), col_idx)
    ELSE headers

\* the dict without entries
EmptyDict == [k \in {} |-> ""]

\* a dict that keeps the value a key already has
AssignAbsent(d, keys, v) ==
    [k \in DOMAIN d \cup keys |-> IF k \in DOMAIN d THEN d[k] ELSE v]

\* dict d after d[k] = v for every k of keys
Assign(d, keys, v) ==
    [k \in DOMAIN d \cup keys |-> IF k \in keys THEN v ELSE d[k]]

\* one iteration of the loop over the cells of a body row; st holds the
\* header list, row_data, the cursor and whether int() has raised
ProcessCell(st, cell) ==
    LET Store(grown, colspan) ==
            IF ~colspan.ok THEN [st EXCEPT !.headers = grown, !.err = TRUE]
            ELSE [st EXCEPT
                     !.headers = grown,
                     !.row_data = Assign(st.row_data,
                         {grown[st.col_idx + 1]}
                             \cup {grown[st.col_idx + i + 1] :
                                     i \in {j \in 1..(colspan.val - 1) :
                                              st.col_idx + j < Len(grown)}},
                         TextOf(cell)),
                     !.col_idx = st.col_idx + colspan.val]
    IN Store(GrowHeaders(st.headers, st.col_idx), SpanOf(cell.colspan))

RECURSIVE ProcessCells(_, _, _)
\* the loop over the cells k.. of a body row
ProcessCells(st, cells, k) ==
    IF k > Len(cells) \/ st.err THEN st
    ELSE ProcessCells(ProcessCell(st, cells[k]), cells, k + 1)

\* a row_data that is left as the cells of the row filled it
PadRowNot(row_data, headers) == row_data

\* for header in headers: if header not in row_data: row_data[header] = ''
PadRow(row_data, headers) ==
    [k \in DOMAIN row_data \cup {headers[i] : i \in 1..Len(headers)} |->
        IF k \in DOMAIN row_data THEN row_data[k] ELSE ""]

\* the body of the loop over the rows, for a row that is not skipped:
\* the header list after the row, its row_data and whether int() raised
ProcessRow(headers, row) ==
    LET Padded(st) ==
            [headers |-> st.headers, err |-> st.err,
             row_data |-> PadRow(st.row_data, st.headers)]
    IN Padded(ProcessCells([headers |-> headers, row_data |-> EmptyDict,
                            col_idx |-> 0, err |-> FALSE], row.cells, 1))

\* data.append(row_data) without the test of row_data
AppendRowAlways(data, row_data) == Append(data, row_data)

\* if row_data: data.append(row_data)
AppendRow(data, row_data) ==
    IF DOMAIN row_data # {} THEN Append(data, row_data) ELSE data

\* rows = tbody.find_all('tr') if tbody else table.find_all('tr')
\* the rows after the one that the header names may have come from
RowsAfterFirst(table) ==
    IF table.hasTbody THEN table.bodyRows
    ELSE IF table.hasThead \/ AllRows(table) = <<>> THEN AllRows(table)
    ELSE Tail(AllRows(table))

RowsOf(table) == IF table.hasTbody THEN table.bodyRows ELSE AllRows(table)

\* one iteration of the loop over the rows; st holds headers, data, err
ExtractRow(st, row) ==
    IF IsRepeatedHeader(row) THEN st
    ELSE LET With(r) ==
                 IF r.err THEN [st EXCEPT !.headers = r.headers, !.err = TRUE]
                 ELSE [st EXCEPT !.headers = r.headers,
                                 !.data = AppendRow(st.data, r.row_data)]
         IN With(ProcessRow(st.headers, row))

RECURSIVE ExtractRows(_, _, _)
\* the loop over the rows k..
ExtractRows(st, rows, k) ==
    IF k > Len(rows) \/ st.err THEN st
    ELSE ExtractRows(ExtractRow(st, rows[k]), rows, k + 1)

\* the tables of the document that carry class token c, by position
WithClass(soup, c) ==
    {i \in 1..Len(soup) : \E j \in 1..Len(soup[i].cls) : soup[i].cls[j] = c}

\* the least position of a set of positions, 0 for none (find's None)
First(positions) ==
    IF positions = {} THEN 0
    ELSE CHOOSE i \in positions : \A j \in positions : i <= j

\* soup.find('table', {'id': id})
FindById(soup, id) ==
    First({i \in 1..Len(soup) : soup[i].id.present /\ soup[i].id.val = id})

\* the table extract_table_data works on: the first one with the id when
\* an id is given, else the first stats_table, else the first one with
\* 'stats' in its id, else the first table; 0 for none
LookupTable(soup, table_id) ==
    IF table_id.present /\ table_id.val # ""
    THEN FindById(soup, table_id.val)
    ELSE IF WithClass(soup, "stats_table") # {}
    THEN First(WithClass(soup, "stats_table"))
    ELSE IF \E i \in 1..Len(soup) :
                soup[i].id.present /\ Contains(Lower(soup[i].id.val), "stats")
    THEN First({i \in 1..Len(soup) :
                soup[i].id.present /\ Contains(Lower(soup[i].id.val), "stats")})
    ELSE First(1..Len(soup))

\* extract_table_data: data and the final header list, or err
ExtractTableData(soup, table_id, table_name, impl) ==
    LET WithHeaders(tbl, built) ==
            IF built.err THEN [err |-> TRUE, headers |-> <<>>, data |-> <<>>]
            ELSE ExtractRows([err |-> FALSE, headers |-> built.headers,
                              data |-> <<>>], RowsOf(tbl), 1)
        OnTable(at) ==
            IF at = 0 THEN [err |-> FALSE, headers |-> <<>>, data |-> <<>>]
            ELSE WithHeaders(soup[at],
                             BuildHeaders(soup[at], table_name, impl))
    IN OnTable(LookupTable(soup, table_id))

----------------------------------------------------------------------------
(* Table locator *)

\* the third implementation: the Flask route api/fbref-extract/index.py
Index == "index"

\* TABLE_MAPPING of the implementation; an entry written r'...' in the
\* source is the str between its quotes
TABLE_MAPPING(i) ==
    IF i = Index
    THEN [geral |-> <<"stats_results_2025-2026_111_overall",
                      "results_2025-2026_111_overall",
                      "stats_results_2025-2026111_overall",
                      "results2025-2026111_overall",
                      "stats_results_.*_overall",
                      "results.*_overall">>,
          home_away |-> <<"stats_results_2025-2026_111_home_away",
                          "results_2025-2026_111_home_away",
                          "stats_results_2025-2026111_home_away",
                          "results2025-2026111_home_away",
                          "stats_results_.*_home_away",
                          "results.*_home_away">>,
          standard_for |-> <<"stats_squads_standard_for", "standard_for">>]
    ELSE IF i = Cli
    THEN ("results2025-2026111_overall" :>
              <<"stats_results_2025-2026_111_overall",
                "results_2025-2026_111_overall",
                "stats_results_2025-2026111_overall",
                "results2025-2026111_overall">>)
         @@ ("results2025-2026111_home_away" :>
              <<"stats_results_2025-2026_111_home_away",
                "results_2025-2026_111_home_away",
                "stats_results_2025-2026111_home_away",
                "results2025-2026111_home_away">>)
         @@ [standard_for |-> <<"stats_squads_standard_for", "standard_for">>,
             passing_for |-> <<"stats_squads_passing_for",
                               "stats_squads_passing", "passing_for">>,
             gca_for |-> <<"stats_squads_gca_for", "stats_squads_gca",
                           "gca_for", "stats_gca_for">>]
    ELSE [geral |-> <<"stats_results_2025-2026_111_overall",
                      "results_2025-2026_111_overall",
                      "stats_results_2025-2026111_overall",
                      "results2025-2026111_overall",
                      "stats_results_.*_overall",
                      "results.*_overall">>,
          standard_for |-> <<"stats_squads_standard_for", "standard_for">>,
          passing_for |-> <<"stats_squads_passing_for",
                            "stats_squads_passing", "passing_for">>,
          gca_for |-> <<"stats_squads_gca_for", "stats_squads_gca",
                        "gca_for", "stats_gca_for">>]

\* the entries of TABLE_MAPPING that the source writes as generic patterns
\* (r'...' under the comment 'Padroes genericos'); the others are literal ids
GenericPatterns ==
    {"stats_results_.*_overall", "results.*_overall",
     "stats_results_.*_home_away", "results.*_home_away"}

\* self.TABLE_MAPPING.get(table_type, [])
PossibleIds(i, table_type) ==
    IF table_type \in DOMAIN TABLE_MAPPING(i)
    THEN TABLE_MAPPING(i)[table_type] ELSE <<>>

RECURSIVE Search(_, _)
\* regex.search(s) for a pattern of literal characters and '.*'
Search(pattern, s) ==
    IF ~Contains(pattern, ".*") THEN Contains(s, pattern)
    ELSE LET cut == First({i \in 1..(Len(pattern) - 1) :
                              SubSeq(pattern, i, i + 1) = ".*"})
             head == SubSeq(pattern, 1, cut - 1)
             rest == SubSeq(pattern, cut + 2, Len(pattern))
         IN \E i \in 1..(Len(s) - Len(head) + 1) :
               /\ SubSeq(s, i, i + Len(head) - 1) = head
               /\ Search(rest, SubSeq(s, i + Len(head), Len(s)))

\* re.compile(pattern, re.IGNORECASE).search(s)
RegexSearch(pattern, s) == Search(Lower(pattern), Lower(s))

\* table.get('id', '')
IdOf(t) == IF t.id.present THEN t.id.val ELSE ""

\* soup.find_all('table', {'id': regex})
FindAllByRegex(soup, pattern) ==
    {i \in 1..Len(soup) :
        soup[i].id.present /\ RegexSearch(pattern, soup[i].id.val)}

\* the loop body without the filter on 'home_away' for the type 'geral'
EntryResultFirst(soup, table_type, table_id_pattern) ==
    IF ~StartsWith(table_id_pattern, "r")
    THEN FindById(soup, table_id_pattern)
    ELSE First(FindAllByRegex(soup, SubSeq(table_id_pattern, 2,
                                           Len(table_id_pattern))))

\* the body of the loop over possible_ids for one entry: the table it
\* returns, 0 when the loop goes on to the next entry
EntryResult(soup, table_type, table_id_pattern) ==
    IF ~StartsWith(table_id_pattern, "r")
    THEN FindById(soup, table_id_pattern)
    ELSE LET pattern == SubSeq(table_id_pattern, 2, Len(table_id_pattern))
             tables == FindAllByRegex(soup, pattern)
         IN IF table_type = "geral"
            THEN First({t \in tables :
                           ~Contains(Lower(IdOf(soup[t])), "home_away")})
            ELSE First(tables)

\* the entries read from the last one to the first one
EntryAtReversed(possible_ids, entry_idx) ==
    possible_ids[Len(possible_ids) - entry_idx]

\* the entry the loop over possible_ids reads in its iteration entry_idx
EntryAt(possible_ids, entry_idx) == possible_ids[entry_idx + 1]

\* the test the fallback applies to the id of a stats_table
FallbackTest(i, table_type, id) ==
    \/ /\ table_type = "geral"
       /\ Contains(Lower(id), "_overall")
       /\ ~Contains(Lower(id), "home_away")
    \/ /\ i = Index
       /\ table_type = "home_away"
       /\ Contains(Lower(id), "_home_away")
    \/ /\ table_type = "standard_for"
       /\ Contains(Lower(id), "standard_for")
    \/ /\ i # Index
       /\ table_type \in {"passing_for", "gca_for"}
       /\ Contains(Lower(id), table_type)

\* the fallback over every table element, whatever its class
FallbackAnyClass(soup, i, table_type) ==
    First({t \in 1..Len(soup) : FallbackTest(i, table_type, IdOf(soup[t]))})

\* the fallback: the first stats_table whose id passes the test of the type
Fallback(soup, i, table_type) ==
    First({t \in WithClass(soup, "stats_table") :
              FallbackTest(i, table_type, IdOf(soup[t]))})

RECURSIVE TryEntries(_, _, _, _)
\* the loop over possible_ids from iteration entry_idx on
TryEntries(soup, table_type, possible_ids, entry_idx) ==
    IF entry_idx >= Len(possible_ids) THEN 0
    ELSE IF EntryResult(soup, table_type, EntryAt(possible_ids, entry_idx)) # 0
    THEN EntryResult(soup, table_type, EntryAt(possible_ids, entry_idx))
    ELSE TryEntries(soup, table_type, possible_ids, entry_idx + 1)

\* find_table_by_type: the position of the table, 0 for None
FindTableByType(soup, i, table_type) ==
    IF TryEntries(soup, table_type, PossibleIds(i, table_type), 0) # 0
    THEN TryEntries(soup, table_type, PossibleIds(i, table_type), 0)
    ELSE Fallback(soup, i, table_type)

----------------------------------------------------------------------------
(* Table-set extraction *)

\* the names a table-set extraction goes through, in order: table_types of
\* the API scrapers, list(TABLE_MAPPING.keys()) of the command-line scraper
TableTypes(i) ==
    IF i = Index THEN <<"geral", "home_away", "standard_for">>
    ELSE IF i = Cli
    THEN <<"results2025-2026111_overall", "results2025-2026111_home_away",
           "standard_for", "passing_for", "gca_for">>
    ELSE <<"geral", "standard_for", "passing_for", "gca_for">>

\* data after row.pop(key) for every key of every row that ends with _link
StripLinks(data) ==
    [r \in 1..Len(data) |->
        [k \in {key \in DOMAIN data[r] : ~EndsWith(key, "_link")} |->
            data[r][k]]]

\* table.get('id', default) as the table_id argument
IdOrDefault(t, default) == IF t.id.present THEN t.id ELSE Attr(default)

\* API scraper, the body of the loop over table_types for one type: the
\* extraction of the table found, its Records without the _link keys
ApiIteration(soup, i, table_type) ==
    IF FindTableByType(soup, i, table_type) = 0
    THEN [err |-> FALSE, headers |-> <<>>, data |-> <<>>]
    ELSE [ExtractTableData(soup,
              IdOrDefault(soup[FindTableByType(soup, i, table_type)],
                          "table_" \o table_type),
              table_type, i)
          EXCEPT !.data = StripLinks(@)]

\* the criterion by which the command-line scraper first collects a table
\* into all_tables: 1 class stats_table, 2 'stats' in the id, 3 a class with
\* 'table' or 'stats' in it, 4 any table
CollectedBy(t) ==
    IF \E j \in 1..Len(t.cls) : t.cls[j] = "stats_table" THEN 1
    ELSE IF t.id.present /\ Contains(Lower(t.id.val), "stats") THEN 2
    ELSE IF \E j \in 1..Len(t.cls) :
               \/ Contains(Lower(t.cls[j]), "table")
               \/ Contains(Lower(t.cls[j]), "stats") THEN 3
    ELSE 4

\* all_tables[idx]: the position in the document of its entry idx
AllTablesAt(soup, idx) ==
    CHOOSE t \in 1..Len(soup) :
        Cardinality({u \in 1..Len(soup) :
            \/ CollectedBy(soup[u]) < CollectedBy(soup[t])
            \/ CollectedBy(soup[u]) = CollectedBy(soup[t]) /\ u < t}) = idx

\* command-line scraper, extract_all_tables=True: the table_id argument for
\* all_tables[idx], None unless the table has an id of its own
AllTableId(soup, idx) ==
    IF /\ soup[AllTablesAt(soup, idx)].id.present
       /\ soup[AllTablesAt(soup, idx)].id.val # ""
       /\ soup[AllTablesAt(soup, idx)].id.val # "table_" \o ToString(idx)
    THEN soup[AllTablesAt(soup, idx)].id
    ELSE NoAttr

\* command-line scraper, extract_all_tables=True: the body of the loop over
\* enumerate(all_tables) for one idx
AllIteration(soup, idx) ==
    [ExtractTableData(soup, AllTableId(soup, idx), "", Cli)
     EXCEPT !.data = StripLinks(@)]

RECURSIVE MappedIteration(_, _, _, _, _)
\* command-line scraper, the loop over possible_ids of one table_name from
\* its entry k on: the first id with a table and Records ends it
MappedIteration(soup, table_name, possible_ids, k, strip) ==
    LET Take(ex) ==
            IF ~ex.err /\ ex.data = <<>>
            THEN MappedIteration(soup, table_name, possible_ids, k + 1, strip)
            ELSE IF strip THEN [ex EXCEPT !.data = StripLinks(@)]
            ELSE ex
    IN IF k > Len(possible_ids)
       THEN [err |-> FALSE, headers |-> <<>>, data |-> <<>>]
       ELSE IF FindById(soup, possible_ids[k]) = 0
       THEN MappedIteration(soup, table_name, possible_ids, k + 1, strip)
       ELSE Take(ExtractTableData(soup, Attr(possible_ids[k]), table_name,
                                  Cli))

----------------------------------------------------------------------------
(* The tables that extraction is run on *)

\* a cell without span attributes
Plain(text) == Cell(text, NoAttr, NoAttr)

\* the thead sections: none, one without rows, one whose only row has no
\* cell, a single header row, two-level headers with colspan and rowspan,
\* a colspan and a rowspan that int() cannot parse, a derived link column,
\* two columns that end in the same text under different categories
Theads ==
    { [hasThead |-> FALSE, headRows |-> <<>>],
      [hasThead |-> TRUE, headRows |-> <<>>],
      [hasThead |-> TRUE, headRows |-> <<Row(<<>>, <<>>)>>],
      [hasThead |-> TRUE,
       headRows |-> <<Row(<<>>, <<Plain("Squad"), Plain("Matches Played")>>)>>],
      [hasThead |-> TRUE,
       headRows |-> << Row(<<"over_header">>,
                           <<Plain(""), Cell("Performance", Attr("2"), NoAttr)>>),
                       Row(<<>>, <<Plain("Squad"), Plain("Gls"), Plain("xG")>>) >>],
      [hasThead |-> TRUE,
       headRows |-> << Row(<<>>, <<Cell("Squad", NoAttr, Attr("2")),
                                   Cell("Expected", Attr("2"), NoAttr)>>),
                       Row(<<>>, <<Plain("xG"), Plain("xGA")>>) >>],
      [hasThead |-> TRUE,
       headRows |-> <<Row(<<>>, <<Cell("Squad", Attr("x"), NoAttr)>>)>>],
      [hasThead |-> TRUE,
       headRows |-> <<Row(<<>>, <<Cell("Squad", NoAttr, Attr(""))>>)>>],
      [hasThead |-> TRUE,
       headRows |-> <<Row(<<>>, <<Plain("Squad"), Plain("Squad_link")>>)>>],
      [hasThead |-> TRUE,
       headRows |-> << Row(<<>>, <<Plain("Expected"),
                                   Plain("Per 90 Minutes")>>),
                       Row(<<>>, <<Plain("xG"), Plain("xG")>>) >>] }

\* the body rows: without cells, with one, two and three cells, with a
\* colspan of 2, with a colspan that int() cannot parse, and rows with a
\* class: the repeated header, a class that holds 'thead' inside a longer
\* token, and a class without it
BodyRows ==
    { Row(<<>>, <<>>),
      Row(<<>>, <<Plain("Inter")>>),
      Row(<<>>, <<Plain("Milan"), Plain("10")>>),
      Row(<<>>, <<Plain("Roma"), Plain("12"), Plain("25")>>),
      Row(<<>>, <<Cell(" 5 ", Attr("2"), NoAttr), Plain("7")>>),
      Row(<<>>, <<Plain("Lazio"), Cell("3", Attr("x"), NoAttr)>>),
      Row(<<"thead">>, <<Plain("Squad"), Plain("MP")>>),
      Row(<<"spacer", "partial_thead">>, <<Plain("Rk")>>),
      Row(<<"spacer">>, <<Plain("Juve")>>) }

\* the number of body rows of a table
MaxBodyRows == 2

RECURSIVE SeqsUpTo(_, _)
\* the sequences of at most n elements of S
SeqsUpTo(S, n) ==
    IF n = 0 THEN {<<>>}
    ELSE SeqsUpTo(S, n - 1)
         \cup {Append(q, x) : q \in {p \in SeqsUpTo(S, n - 1) : Len(p) = n - 1},
                              x \in S}

\* the tables extraction is run on, all with the id stats_t
ExtractTables ==
    {Table(Attr("stats_t"), <<"stats_table">>, h.hasThead, h.headRows, b, rows) :
        h \in Theads, b \in BOOLEAN, rows \in SeqsUpTo(BodyRows, MaxBodyRows)}

\* the table_name arguments
ExtractNames == {"geral", "standard_for"}

----------------------------------------------------------------------------
(* State *)

VARIABLES
    soup,        \* the parsed document: its table elements in document order
    impl,        \* the implementation that runs
    pc,          \* the control point of the running function
    table_id,    \* extract_table_data: the table_id argument
    table_name,  \* extract_table_data: the table_name argument
    table,       \* extract_table_data: the position of the table, 0 for none
    headers,     \* extract_table_data: the header list
    data,        \* extract_table_data: the Records appended so far
    row_idx,     \* extract_table_data: the number of rows handled so far
    table_type,  \* find_table_by_type: the table_type argument
    entry_idx,   \* find_table_by_type: the entries of possible_ids tried
    found,       \* find_table_by_type: the position returned, 0 for None
    mode,        \* the entry point of the table-set extraction that runs
    type_idx,    \* table-set extraction: the names gone through so far
    tables,      \* table-set extraction: results["tables"]
    result,      \* table-set extraction: the kind of dict it returned
    response,    \* the request handler: the response sent
    calls,       \* the calls of find_table_by_type and extract_table_data
                 \* made since the entry point was entered
    earlier,     \* what the call before the running one was given and gave
    fill,        \* the header matrix builder: the matrix and the cursor,
                 \* and the grid positions that the cells placed span
    hrow,        \* the header matrix builder: the header rows gone through
    hcell,       \* the header matrix builder: the cells of the row placed
    header,      \* _normalize_header_name: the header argument
    normalized,  \* _normalize_header_name: the value returned, once there
    retries,     \* get_page: the retries argument
    attempt,     \* get_page: the loop variable
    requests,    \* get_page: the calls of session.get made so far
    outcome,     \* get_page: what the last call of session.get gave
    last_error,  \* get_page: the error_info kept for the end of the loop
    returned,    \* get_page: the value returned, once there
    request,     \* the Selenium handler: the request it serves
    scraper,     \* the Selenium handler: its local variable scraper, as the
                 \* position of the scraper's driver in drivers, 0 for None
    drivers,     \* the browser drivers started so far, each running or quit
    status,      \* the Selenium handler: the status it returned, 0 before
    served       \* the requests the Selenium handler has returned from

extractVars == <<table_id, table_name, table, headers, data, row_idx>>
locateVars == <<table_type, entry_idx, found>>
scrapeVars == <<mode, type_idx, tables, result, response, calls, earlier>>
headerVars == <<fill, hrow, hcell>>
normalizeVars == <<header, normalized>>
ioVars == <<retries, attempt, requests, outcome, last_error, returned,
           request, scraper, drivers, status, served>>
vars == <<soup, impl, pc, extractVars, locateVars, scrapeVars, headerVars,
          normalizeVars, ioVars>>

\* extract_table_data is not running
ExtractIdle ==
    /\ table_id = NoAttr
    /\ table_name = ""
    /\ table = 0
    /\ headers = <<>>
    /\ data = <<>>
    /\ row_idx = 0

\* find_table_by_type is not running
LocateIdle ==
    /\ table_type = ""
    /\ entry_idx = 0
    /\ found = 0

\* no response sent
NoResponse ==
    [status |-> 0, success |-> FALSE, kind |-> "none",
     tables |-> EmptyDict, missing |-> <<>>]

\* no call came before the running one
NoEarlier ==
    [ran |-> FALSE, soup |-> <<>>, pc |-> "", tables |-> EmptyDict,
     result |-> "", response |-> NoResponse]

\* no table-set extraction is running
ScrapeIdle ==
    /\ mode = ""
    /\ type_idx = 0
    /\ tables = EmptyDict
    /\ result = ""
    /\ response = NoResponse
    /\ calls = {}
    /\ earlier = NoEarlier

\* the header matrix builder is not running
HeaderIdle ==
    /\ fill = [matrix |-> <<>>, col_idx |-> 0, stop |-> FALSE, err |-> FALSE]
    /\ hrow = 0
    /\ hcell = 0

\* _normalize_header_name is not running
NormalizeIdle ==
    /\ header = ""
    /\ normalized = ""

\* None in the place of an error_info
NoErrorInfo == [type |-> "None", attempt |-> 0, retries |-> 0]

\* neither get_page nor the Selenium handler is running
IoIdle ==
    /\ retries = 0
    /\ attempt = 0
    /\ requests = 0
    /\ outcome = ""
    /\ last_error = NoErrorInfo
    /\ returned = [done |-> FALSE, soup |-> FALSE, error_info |-> NoErrorInfo]
    /\ request = [method |-> "", body |-> ""]
    /\ scraper = 0
    /\ drivers = <<>>
    /\ status = 0
    /\ served = 0

----------------------------------------------------------------------------
(* extract_table_data, one body row at a time *)

InitExtract ==
    /\ soup \in {<<t>> : t \in ExtractTables}
    /\ impl = Api
    /\ pc = "extract"
    /\ table_id = Attr("stats_t")
    /\ table_name \in ExtractNames
    /\ table = 0
    /\ headers = <<>>
    /\ data = <<>>
    /\ row_idx = 0
    /\ LocateIdle
    /\ ScrapeIdle
    /\ HeaderIdle
    /\ NormalizeIdle
    /\ IoIdle

\* the lookup of the table and the header phase
ExtractBegin ==
    /\ pc = "extract"
    /\ LET at == LookupTable(soup, table_id)
           built == BuildHeaders(soup[at], table_name, impl)
       IN /\ table' = at
          /\ IF at = 0
             THEN pc' = "returned" /\ headers' = headers
             ELSE IF built.err
             THEN pc' = "raised" /\ headers' = headers
             ELSE pc' = "rows" /\ headers' = built.headers
    /\ UNCHANGED <<ioVars, soup, impl, table_id, table_name, data, row_idx,
                   locateVars, scrapeVars, headerVars, normalizeVars>>

\* one iteration of the loop over the rows
ExtractStep ==
    /\ pc = "rows"
    /\ row_idx < Len(RowsOf(soup[table]))
    /\ LET st == ExtractRow([headers |-> headers, data |-> data, err |-> FALSE],
                            RowsOf(soup[table])[row_idx + 1])
       IN /\ headers' = st.headers
          /\ data' = st.data
          /\ IF st.err
             THEN pc' = "raised" /\ row_idx' = row_idx
             ELSE pc' = "rows" /\ row_idx' = row_idx + 1
    /\ UNCHANGED <<ioVars, soup, impl, table_id, table_name, table, locateVars,
                   scrapeVars, headerVars, normalizeVars>>

\* return data
ExtractReturn ==
    /\ pc = "rows"
    /\ row_idx = Len(RowsOf(soup[table]))
    /\ pc' = "returned"
    /\ UNCHANGED <<ioVars, soup, impl, extractVars, locateVars, scrapeVars,
                   headerVars, normalizeVars>>

NextExtract == ExtractBegin \/ ExtractStep \/ ExtractReturn

SpecExtract == InitExtract /\ [][NextExtract]_vars

----------------------------------------------------------------------------
(* find_table_by_type, one entry of possible_ids at a time *)

\* a table element of which only the id and the class matter
Bare(id, cls) == Table(id, cls, FALSE, <<>>, FALSE, <<>>)

\* the table elements of the documents the locator is run on
LocTables ==
    { Bare(Attr("stats_results_2025-2026_111_overall"), <<"stats_table">>),
      Bare(Attr("results_2025-2026_111_overall"), <<>>),
      Bare(Attr("old_results_2025-2026_111_overall"), <<>>),
      Bare(Attr("stats_results_2024-2025_999_overall"), <<"stats_table">>),
      Bare(Attr("stats_results_2024-2025_999_home_away"), <<"stats_table">>),
      Bare(Attr("Results_Home_Away_Overall"), <<"stats_table">>),
      Bare(Attr("league_overall"), <<"stats_table", "sortable">>),
      Bare(Attr("league_overall"), <<"sortable">>),
      Bare(Attr("stats_squads_standard_for"), <<>>),
      Bare(Attr("all_standard_for"), <<"stats_table">>),
      Bare(NoAttr, <<"stats_table">>) }

\* the documents have at most MaxTables table elements
MaxTables == 2

\* the (implementation, table_type) pairs the locator is called with
LocCalls ==
    ({Api} \X {"geral", "standard_for", "gca_for", "home_away"})
        \cup ({Index} \X {"geral", "home_away"})

InitLocate ==
    /\ soup \in SeqsUpTo(LocTables, MaxTables)
    /\ \E c \in LocCalls : impl = c[1] /\ table_type = c[2]
    /\ pc = "matchers"
    /\ entry_idx = 0
    /\ found = 0
    /\ ExtractIdle
    /\ ScrapeIdle
    /\ HeaderIdle
    /\ NormalizeIdle
    /\ IoIdle

\* one iteration of the loop over possible_ids
LocateEntry ==
    /\ pc = "matchers"
    /\ entry_idx < Len(PossibleIds(impl, table_type))
    /\ LET t == EntryResult(soup, table_type,
                            EntryAt(PossibleIds(impl, table_type), entry_idx))
       IN IF t # 0
          THEN found' = t /\ pc' = "returned" /\ entry_idx' = entry_idx
          ELSE found' = found /\ pc' = "matchers" /\ entry_idx' = entry_idx + 1
    /\ UNCHANGED <<ioVars, soup, impl, table_type, extractVars, scrapeVars,
                   headerVars, normalizeVars>>

\* the fallback over the stats_table elements and the final return None
LocateFallback ==
    /\ pc = "matchers"
    /\ entry_idx = Len(PossibleIds(impl, table_type))
    /\ found' = Fallback(soup, impl, table_type)
    /\ pc' = "returned"
    /\ UNCHANGED <<ioVars, soup, impl, table_type, entry_idx, extractVars,
                   scrapeVars, headerVars, normalizeVars>>

NextLocate == LocateEntry \/ LocateFallback

SpecLocate == InitLocate /\ [][NextLocate]_vars

----------------------------------------------------------------------------
(* Table-set extraction, one name at a time, and the POST handler *)

\* the table elements of the documents a table-set extraction is run on
ScrapeTables ==
    { Table(Attr("stats_results_2025-2026_111_overall"), <<"stats_table">>,
            TRUE, <<Row(<<>>, <<Plain("Squad"), Plain("Match_link")>>)>>,
            TRUE, <<Row(<<>>, <<Plain("Inter"), Plain("r1")>>)>>),
      Table(Attr("stats_squads_standard_for"), <<>>,
            FALSE, <<>>,
            TRUE, <<Row(<<>>, <<Plain("Milan"), Plain("10")>>)>>),
      Table(Attr("stats_squads_gca_for"), <<"stats_table">>,
            TRUE, <<Row(<<>>, <<Plain("Squad")>>)>>, TRUE, <<>>),
      Table(Attr("gca_for"), <<"stats_table">>,
            FALSE, <<>>,
            FALSE, <<Row(<<>>, <<Plain("Napoli_link")>>)>>),
      Table(Attr("stats_squads_passing_for"), <<>>,
            TRUE, <<Row(<<>>, <<Plain("Squad")>>)>>,
            TRUE, <<Row(<<>>, <<Plain("Lazio"),
                                Cell("3", Attr("x"), NoAttr)>>)>>),
      Table(NoAttr, <<"sortable">>,
            FALSE, <<>>, FALSE, <<Row(<<>>, <<Plain("Roma")>>)>>),
      Table(Attr("league_overall"), <<>>,
            TRUE, <<Row(<<>>, <<Plain("Squad")>>)>>,
            TRUE, <<Row(<<>>, <<Plain("Juve")>>)>>),
      Table(Attr("league_overall"), <<"stats_table">>,
            TRUE, <<Row(<<>>, <<Plain("Squad")>>)>>, TRUE, <<>>) }

\* the entry points: do_POST of the API, the Flask handler of the API,
\* scrape_any_page of the command-line scraper with extract_all_tables True
\* and False, scrape_serie_a_stats without and with a table_filter
Modes == {"post", "index", "all", "mapped", "serie_a", "serie_a_filter"}

\* the entry points that answer a request
Handlers == {"post", "index"}

\* the implementation an entry point belongs to
ImplOf(m) == IF m = "post" THEN Api ELSE IF m = "index" THEN Index ELSE Cli

\* the names the loop of the entry point goes through
TablesToExtract(m) ==
    IF m \in Handlers THEN TableTypes(ImplOf(m))
    ELSE IF m = "serie_a_filter"
    THEN LET InMapping(t) == t \in DOMAIN TABLE_MAPPING(Cli)
         IN SelectSeq(<<"gca_for", "misc", "standard_for">>, InMapping)
    ELSE TableTypes(Cli)

\* the iterations of the loop of the entry point
Iterations(m, doc) ==
    IF m = "all" THEN Len(doc) ELSE Len(TablesToExtract(m))

\* the body of the loop of the entry point for its iteration k (from 0)
Iteration(m, doc, k) ==
    IF m \in Handlers
    THEN ApiIteration(doc, ImplOf(m), TablesToExtract(m)[k + 1])
    ELSE IF m = "all" THEN AllIteration(doc, k)
    ELSE MappedIteration(doc, TablesToExtract(m)[k + 1],
                         TABLE_MAPPING(Cli)[TablesToExtract(m)[k + 1]], 1,
                         m # "mapped")

\* the key of results["tables"] the iteration k stores under
IterationName(m, doc, k) ==
    IF m # "all" THEN TablesToExtract(m)[k + 1]
    ELSE IF AllTableId(doc, k).present THEN AllTableId(doc, k).val
    ELSE "table_" \o ToString(k)

\* the functions of the scraper that iteration k of the loop invokes
CallsOf(m, doc, k) ==
    IF m \in Handlers
    THEN IF FindTableByType(doc, ImplOf(m), TablesToExtract(m)[k + 1]) = 0
         THEN {"find_table_by_type"}
         ELSE {"find_table_by_type", "extract_table_data"}
    ELSE IF m = "all" THEN {"extract_table_data"}
    ELSE IF \E j \in 1..Len(TABLE_MAPPING(Cli)[TablesToExtract(m)[k + 1]]) :
               FindById(doc,
                        TABLE_MAPPING(Cli)[TablesToExtract(m)[k + 1]][j]) # 0
    THEN {"extract_table_data"}
    ELSE {}

\* every entry point returns results whatever it holds
ScrapeResultOk(m, stored) == "ok"

\* a return value that remembers that the scraper has been used before
ScrapeResultOnce(m, stored) ==
    IF earlier.ran \/ DOMAIN stored # {} THEN "ok"
    ELSE IF m \in Handlers THEN "no_tables"
    ELSE IF m = "all" THEN "no_data"
    ELSE "ok"

\* the dict the entry point returns after its loop: results, or an error
\* dict when scrape_any_page (API, extract_all_tables=True) stored nothing
ScrapeResult(m, stored) ==
    IF DOMAIN stored # {} THEN "ok"
    ELSE IF m \in Handlers THEN "no_tables"
    ELSE IF m = "all" THEN "no_data"
    ELSE "ok"

InitScrape ==
    /\ soup \in SeqsUpTo(ScrapeTables, MaxTables)
    /\ mode \in Modes
    /\ impl = ImplOf(mode)
    /\ pc = IF mode \in Handlers THEN "post" ELSE "fetch"
    /\ type_idx = 0
    /\ tables = EmptyDict
    /\ result = ""
    /\ response = NoResponse
    /\ calls = {}
    /\ earlier = NoEarlier
    /\ ExtractIdle
    /\ LocateIdle
    /\ HeaderIdle
    /\ NormalizeIdle
    /\ IoIdle

\* do_POST up to the call of scrape_any_page: the body is not JSON, or the
\* url is not one of fbref.com, or the request is accepted
HandlerBegin ==
    /\ pc = "post"
    /\ \E body \in {"bad_json", "bad_url", "ok"} :
          IF body = "ok"
          THEN pc' = "fetch" /\ response' = response
          ELSE /\ pc' = "responded"
               /\ response' = [NoResponse EXCEPT !.status = 400,
                                                 !.kind = "error"]
    /\ UNCHANGED <<ioVars, soup, impl, extractVars, locateVars, headerVars,
                   normalizeVars, calls, earlier, mode, type_idx, tables,
                   result>>

\* an entry point that goes on to its loop without a Document
FetchThenLoop ==
    /\ pc = "fetch"
    /\ \E fetched \in BOOLEAN :
          /\ pc' = "names"
          /\ result' = IF fetched THEN result ELSE "no_page"
    /\ UNCHANGED <<ioVars, soup, impl, extractVars, locateVars, headerVars,
                   normalizeVars, calls, earlier, mode, type_idx, tables,
                   response>>

\* get_page and what precedes the loop: without a Document the entry point
\* returns an error dict; with extract_all_tables=True a Document without
\* table is an error dict too
Fetch ==
    /\ pc = "fetch"
    /\ \E fetched \in BOOLEAN :
          IF ~fetched
          THEN pc' = "scraped" /\ result' = "no_page"
          ELSE IF mode = "all" /\ Len(soup) = 0
          THEN pc' = "scraped" /\ result' = "no_tables"
          ELSE pc' = "names" /\ result' = result
    /\ UNCHANGED <<ioVars, soup, impl, extractVars, locateVars, headerVars,
                   normalizeVars, calls, earlier, mode, type_idx, tables,
                   response>>

\* one iteration of the loop of the entry point
ScrapeName ==
    /\ pc = "names"
    /\ type_idx < Iterations(mode, soup)
    /\ \E it \in {Iteration(mode, soup, type_idx)} :
          /\ pc' = IF it.err THEN "raised" ELSE "names"
          /\ tables' = IF it.err \/ it.data = <<>> THEN tables
                       ELSE (IterationName(mode, soup, type_idx) :> it.data)
                                @@ tables
          /\ type_idx' = IF it.err THEN type_idx ELSE type_idx + 1
    /\ calls' = calls \union CallsOf(mode, soup, type_idx)
    /\ UNCHANGED <<ioVars, soup, impl, extractVars, locateVars, headerVars,
                   normalizeVars, earlier, mode, result, response>>

\* the return of the entry point after its loop
ScrapeReturn ==
    /\ pc = "names"
    /\ type_idx = Iterations(mode, soup)
    /\ result' = ScrapeResult(mode, tables)
    /\ pc' = "scraped"
    /\ UNCHANGED <<ioVars, soup, impl, extractVars, locateVars, headerVars,
                   normalizeVars, calls, earlier, mode, type_idx, tables,
                   response>>

\* tables.get(table_type, []) for the four types of the response
MappedTables(stored) ==
    [t \in {TableTypes(impl)[k] : k \in 1..Len(TableTypes(impl))} |->
        IF t \in DOMAIN stored THEN stored[t] ELSE <<>>]

\* do_POST after scrape_any_page: the error of an error dict, or the mapped
\* tables and the missing ones; status 500 when an exception came out
HandlerRespond ==
    /\ mode \in Handlers
    /\ pc \in {"scraped", "raised"}
    /\ pc' = "responded"
    /\ response' =
          IF pc = "raised"
          THEN [NoResponse EXCEPT !.status = 500, !.kind = "error"]
          ELSE IF result # "ok"
          THEN [NoResponse EXCEPT !.status = 200, !.kind = "error"]
          ELSE LET Empty(t) == MappedTables(tables)[t] = <<>>
               IN [status |-> 200, success |-> TRUE, kind |-> "data",
                   tables |-> MappedTables(tables),
                   missing |-> SelectSeq(TableTypes(impl), Empty)]
    /\ UNCHANGED <<ioVars, soup, impl, extractVars, locateVars, headerVars,
                   normalizeVars, calls, earlier, mode, type_idx, tables,
                   result>>

\* the Document with its tables in the opposite order
Reversed(doc) == [k \in 1..Len(doc) |-> doc[Len(doc) + 1 - k]]

\* the entry point is entered a second time, after the first call has
\* returned or raised, on the same Document or on another one
ScrapeAgain ==
    /\ ~earlier.ran
    /\ \/ mode \in Handlers /\ pc = "responded"
       \/ mode \notin Handlers /\ pc \in {"scraped", "raised"}
    /\ earlier' = [ran |-> TRUE, soup |-> soup, pc |-> pc, tables |-> tables,
                   result |-> result, response |-> response]
    /\ soup' \in {soup, Reversed(soup)}
    /\ pc' = IF mode \in Handlers THEN "post" ELSE "fetch"
    /\ type_idx' = 0
    /\ tables' = EmptyDict
    /\ result' = ""
    /\ response' = NoResponse
    /\ calls' = {}
    /\ UNCHANGED <<ioVars, impl, mode, extractVars, locateVars, headerVars,
                   normalizeVars>>

NextScrape ==
    \/ HandlerBegin
    \/ Fetch
    \/ ScrapeName
    \/ ScrapeReturn
    \/ HandlerRespond
    \/ ScrapeAgain

SpecScrape == InitScrape /\ [][NextScrape]_vars

----------------------------------------------------------------------------
(* _normalize_header_name on one header text *)

\* the header texts the normalizer is run on
NormalizeInputs ==
    {"", "Matches Played", "xGD / 90", "rank", "  MATCHES   played ",
     "Squad", "striker", "W", "Gls", "xG", "GOALS FOR", "Top Scorer",
     "points per match", "pts per mp", "mp and pts", "xgd per 90",
     "last 5 games", "top goal scorer", "pts mp xgd 90",
     "last top 5 scorer", "xgd 90 last 5", "Performance_Gls", "Expected_xG",
     "Expected_xGA", "attendance avg", "team name", "Pts"}

InitNormalize ==
    /\ soup = <<>>
    /\ impl \in {Api, Index, Cli, Selenium}
    /\ pc = "normalize"
    /\ header \in NormalizeInputs
    /\ normalized = ""
    /\ ExtractIdle
    /\ LocateIdle
    /\ ScrapeIdle
    /\ HeaderIdle
    /\ IoIdle

\* the call and its return value
NormalizeCall ==
    /\ pc = "normalize"
    /\ normalized' = Normalize(impl, header)
    /\ pc' = "normalized"
    /\ UNCHANGED <<ioVars, soup, impl, header, extractVars, locateVars, scrapeVars,
                   headerVars>>

NextNormalize == NormalizeCall

SpecNormalize == InitNormalize /\ [][NextNormalize]_vars

----------------------------------------------------------------------------
(* The header phase of extract_table_data on a thead, one cell at a time *)

\* the header sections the header phase is run on
HeaderTheads ==
    { << Row(<<>>, <<Plain("Performance"), Plain("Expected")>>),
         Row(<<>>, <<Plain("Gls"), Plain("xG")>>) >>,
      << Row(<<>>, <<Plain(""), Cell("Performance", Attr("2"), NoAttr),
                     Cell("Expected", Attr("3"), NoAttr)>>),
         Row(<<>>, <<Plain("Squad"), Plain("Gls"), Plain("G/90"),
                     Plain("xG"), Plain("xGA"), Plain("npxG")>>) >>,
      << Row(<<>>, <<Cell("Squad", NoAttr, Attr("2")),
                     Cell("Goals", Attr("2"), NoAttr), Plain("Points")>>),
         Row(<<>>, <<Plain("GF"), Plain("GA"), Plain("Pts")>>) >>,
      << Row(<<>>, <<Cell("Squad", NoAttr, Attr("3")),
                     Cell("Playing Time", Attr("2"), NoAttr)>>),
         Row(<<>>, <<Plain("Starts"), Plain("Subs")>>),
         Row(<<>>, <<Plain("MP"), Plain("Min")>>) >>,
      << Row(<<>>, <<Cell("Squad", NoAttr, Attr("3")),
                     Cell("Goals", Attr("2"), NoAttr)>>),
         Row(<<>>, <<Plain("Home"), Plain("Away")>>),
         Row(<<>>, <<Plain("GF"), Plain("xG")>>) >>,
      << Row(<<>>, <<Plain("Rk"), Cell("Squad", NoAttr, Attr("2"))>>),
         Row(<<>>, <<Cell("Notes", Attr("2"), NoAttr)>>) >>,
      << Row(<<>>, <<Cell("Rk", NoAttr, Attr("2")),
                     Cell("Squad", NoAttr, Attr("2"))>>),
         Row(<<>>, <<Plain("Pts")>>) >>,
      << Row(<<>>, <<Cell("", NoAttr, Attr("2")), Plain("Performance")>>),
         Row(<<>>, <<Plain(""), Plain("Gls")>>) >>,
      << Row(<<>>, <<Cell("", NoAttr, Attr("2")), Plain("Performance")>>),
         Row(<<>>, <<Plain("Gls")>>) >>,
      << Row(<<>>, <<Plain("Squad"), Cell("MP", NoAttr, Attr(""))>>) >> }

\* header_rows = thead.find_all('tr')
header_rows == soup[table].headRows

\* max_cols of the table
max_cols == MaxColsFrom(header_rows, 1)

InitHeaders ==
    /\ soup \in {<<Table(Attr("stats_t"), <<"stats_table">>, TRUE, rows,
                         FALSE, <<>>)>> : rows \in HeaderTheads}
    /\ impl \in {Api, Cli}
    /\ pc = "fill"
    /\ table_id = Attr("stats_t")
    /\ table_name \in {"geral", "standard_for"}
    /\ table = 1
    /\ headers = <<>>
    /\ data = <<>>
    /\ row_idx = 0
    /\ fill = [matrix |-> EmptyMatrix(Len(soup[1].headRows),
                                      MaxColsFrom(soup[1].headRows, 1)),
               col_idx |-> 0, stop |-> FALSE, err |-> FALSE, covered |-> {}]
    /\ hrow = 0
    /\ hcell = 0
    /\ LocateIdle
    /\ ScrapeIdle
    /\ NormalizeIdle
    /\ IoIdle

\* one iteration of the loop over the cells of header row hrow: the cell
\* is placed, or the loop breaks, or int() raises
HeaderCell ==
    /\ pc = "fill"
    /\ hrow < Len(header_rows)
    /\ hcell < Len(header_rows[hrow + 1].cells)
    /\ ~fill.stop
    /\ \E st \in {PlaceCell(fill, hrow, header_rows[hrow + 1].cells[hcell + 1],
                             max_cols)} :
          /\ fill' =
                IF st.err \/ st.stop THEN st
                ELSE [st EXCEPT !.covered = @ \union
                        {p \in (0..(Len(header_rows) - 1))
                                   \X (0..(max_cols - 1)) :
                            /\ p[1] >= hrow
                            /\ p[1] < hrow + SpanOf(header_rows[hrow + 1]
                                            .cells[hcell + 1].rowspan).val
                            /\ p[2] < st.col_idx
                            /\ p[2] >= st.col_idx
                                  - SpanOf(header_rows[hrow + 1]
                                            .cells[hcell + 1].colspan).val}]
          /\ pc' = IF st.err THEN "raised" ELSE "fill"
          /\ hcell' = IF st.err \/ st.stop THEN hcell ELSE hcell + 1
    /\ UNCHANGED <<ioVars, soup, impl, hrow, extractVars, locateVars, scrapeVars,
                   normalizeVars>>

\* the loop over the cells of header row hrow is over: the next row starts
\* at col_idx 0
HeaderRowEnd ==
    /\ pc = "fill"
    /\ hrow < Len(header_rows)
    /\ hcell = Len(header_rows[hrow + 1].cells) \/ fill.stop
    /\ fill' = [fill EXCEPT !.col_idx = 0, !.stop = FALSE]
    /\ hrow' = hrow + 1
    /\ hcell' = 0
    /\ UNCHANGED <<ioVars, soup, impl, pc, extractVars, locateVars, scrapeVars,
                   normalizeVars>>

\* the loop over the columns of the matrix that names every column
HeaderCombine ==
    /\ pc = "fill"
    /\ hrow = Len(header_rows)
    /\ headers' = [c \in 1..max_cols |->
                      ColumnHeader(fill.matrix, c - 1, table_name, impl)]
    /\ pc' = "combined"
    /\ UNCHANGED <<ioVars, soup, impl, table_id, table_name, table, data, row_idx,
                   locateVars, scrapeVars, headerVars, normalizeVars>>

NextHeaders == HeaderCell \/ HeaderRowEnd \/ HeaderCombine

SpecHeaders == InitHeaders /\ [][NextHeaders]_vars

----------------------------------------------------------------------------
(* get_page, one attempt at a time, and the entry point that called it *)

\* the largest retries argument
MaxRetries == 3

\* no check of the attempts that remain: a failed attempt is the last one
AttemptsRemainNever(a, n) == FALSE

\* 'if attempt < retries - 1': another attempt comes after a failed one
AttemptsRemain(a, n) == a < n - 1

\* an error_info dict that numbers the attempts from 0
ErrorInfoFromZero(type, a, n) ==
    IF impl = Index THEN [type |-> type, attempt |-> a, retries |-> n]
    ELSE NoErrorInfo

\* the error_info dict of the attempt a (from 0); the scrapers that return
\* the Document alone build none
ErrorInfo(type, a, n) ==
    IF impl = Index THEN [type |-> type, attempt |-> a + 1, retries |-> n]
    ELSE NoErrorInfo

\* scrape_any_page (scrape_page in scraper.py) has called get_page on a url
\* whose page, when it comes, parses into soup
InitGetPage ==
    /\ soup \in SeqsUpTo(ScrapeTables, MaxTables)
    /\ mode \in {"post", "index", "mapped"}
    /\ impl = ImplOf(mode)
    /\ pc = "get_page"
    /\ retries \in 0..MaxRetries
    /\ attempt = 0
    /\ requests = 0
    /\ outcome = ""
    /\ last_error = NoErrorInfo
    /\ returned = [done |-> FALSE, soup |-> FALSE, error_info |-> NoErrorInfo]
    /\ request = [method |-> "", body |-> ""]
    /\ scraper = 0
    /\ drivers = <<>>
    /\ status = 0
    /\ served = 0
    /\ type_idx = 0
    /\ tables = EmptyDict
    /\ result = ""
    /\ response = NoResponse
    /\ calls = {}
    /\ earlier = NoEarlier
    /\ ExtractIdle
    /\ LocateIdle
    /\ HeaderIdle
    /\ NormalizeIdle

\* one iteration of 'for attempt in range(retries)': session.get gives a
\* page, a page whose title tells an error, a status 403, another status
\* from 400 on, or raises a timeout, a connection error or another
\* RequestException
GetPageAttempt ==
    /\ pc = "get_page"
    /\ attempt < retries
    /\ requests' = requests + 1
    /\ \E o \in {"ok", "page_error", "403", "http_error", "timeout",
                 "connection_error", "request_exception"} :
          /\ outcome' = o
          /\ last_error' = IF o \in {"ok", "page_error"} THEN last_error
                           ELSE ErrorInfo(o, attempt, retries)
          /\ IF o = "ok"
             THEN /\ returned' = [done |-> TRUE, soup |-> TRUE,
                                  error_info |-> NoErrorInfo]
                  /\ pc' = "got"
                  /\ attempt' = attempt
             ELSE IF o # "page_error" /\ AttemptsRemain(attempt, retries)
             THEN /\ returned' = returned
                  /\ pc' = pc
                  /\ attempt' = attempt + 1
             ELSE /\ returned' =
                        [done |-> TRUE, soup |-> FALSE,
                         error_info |-> ErrorInfo(o, attempt, retries)]
                  /\ pc' = "got"
                  /\ attempt' = attempt
    /\ UNCHANGED <<soup, impl, retries, request, scraper, drivers, status,
                   served, extractVars, locateVars, scrapeVars, headerVars,
                   normalizeVars>>

\* the return after the loop, with what the loop left in last_error
GetPageExhausted ==
    /\ pc = "get_page"
    /\ attempt >= retries
    /\ returned' = [done |-> TRUE, soup |-> FALSE, error_info |-> last_error]
    /\ pc' = "got"
    /\ UNCHANGED <<soup, impl, retries, attempt, requests, outcome,
                   last_error, request, scraper, drivers, status, served,
                   extractVars, locateVars, scrapeVars, headerVars,
                   normalizeVars>>

\* the entry point after get_page: 'if not soup' returns an error dict,
\* a Document goes on to the loop
ScrapeAfterGet ==
    /\ pc = "got"
    /\ IF returned.soup
       THEN pc' = "names" /\ result' = result
       ELSE pc' = "scraped" /\ result' = "no_page"
    /\ UNCHANGED <<ioVars, soup, impl, extractVars, locateVars, headerVars,
                   normalizeVars, calls, earlier, mode, type_idx, tables,
                   response>>

NextGetPage ==
    \/ GetPageAttempt
    \/ GetPageExhausted
    \/ ScrapeAfterGet
    \/ ScrapeName
    \/ ScrapeReturn

SpecGetPage == InitGetPage /\ [][NextGetPage]_vars

\* session.get has a timeout and every sleep ends, so an iteration of the
\* loop that can be taken is taken
FairGetPage == SpecGetPage /\ WF_vars(GetPageAttempt \/ GetPageExhausted)

----------------------------------------------------------------------------
(* The request handler of the Selenium scraper *)

\* the most requests the handler serves
MaxRequests == 2

\* the application after its start: no request yet, no driver started
InitSelenium ==
    /\ soup = <<>>
    /\ impl = Selenium
    /\ pc = "waiting"
    /\ IoIdle
    /\ ExtractIdle
    /\ LocateIdle
    /\ ScrapeIdle
    /\ HeaderIdle
    /\ NormalizeIdle

\* a request arrives at the route, which lets OPTIONS and POST through; its
\* body is one that get_json raises on (a JSONDecodeError or another
\* exception), one that get_json gives a false value for, a dict without
\* championshipUrl, with a url that lacks 'fbref.com', or with one of
\* fbref.com; 'scraper = None' comes before the try
SeleniumRequest ==
    /\ pc = "waiting"
    /\ served < MaxRequests
    /\ request' \in [method : {"OPTIONS", "POST"},
                     body : {"decode_error", "raises", "empty", "no_url",
                             "other_url", "fbref_url"}]
    /\ scraper' = 0
    /\ status' = 0
    /\ pc' = "handler"
    /\ UNCHANGED <<soup, impl, retries, attempt, requests, outcome,
                   last_error, returned, drivers, served, extractVars,
                   locateVars, scrapeVars, headerVars, normalizeVars>>

\* the handler up to the construction of the scraper: OPTIONS returns
\* before the try, every other return and every exception goes through
\* the finally block
SeleniumValidate ==
    /\ pc = "handler"
    /\ IF request.method = "OPTIONS"
       THEN pc' = "waiting" /\ status' = 200 /\ served' = served + 1
       ELSE /\ served' = served
            /\ IF request.body = "fbref_url"
               THEN pc' = "construct" /\ status' = status
               ELSE /\ pc' = "finally"
                    /\ status' = IF request.body = "raises" THEN 500 ELSE 400
    /\ UNCHANGED <<soup, impl, retries, attempt, requests, outcome,
                   last_error, returned, request, scraper, drivers,
                   extractVars, locateVars, scrapeVars, headerVars,
                   normalizeVars>>

\* 'scraper = FBrefSeleniumScraper(headless=True)': webdriver.Chrome raises
\* and no driver is started, or it starts a driver and execute_script
\* raises, or __init__ returns and scraper is assigned; an exception of
\* __init__ leaves scraper None and gives the status 500
SeleniumConstruct ==
    /\ pc = "construct"
    /\ \E init \in {"chrome_raises", "script_raises", "ok"} :
          /\ drivers' = IF init = "chrome_raises" THEN drivers
                        ELSE Append(drivers, "running")
          /\ scraper' = IF init = "ok" THEN Len(drivers) + 1 ELSE scraper
          /\ pc' = IF init = "ok" THEN "scrape" ELSE "finally"
          /\ status' = IF init = "ok" THEN status ELSE 500
    /\ UNCHANGED <<soup, impl, retries, attempt, requests, outcome,
                   last_error, returned, request, served, extractVars,
                   locateVars, scrapeVars, headerVars, normalizeVars>>

\* scrape_any_page and the response: an error dict, the tables, or an
\* exception
SeleniumScrape ==
    /\ pc = "scrape"
    /\ \E scraped \in {"error", "tables", "raises"} :
          status' = IF scraped = "raises" THEN 500 ELSE 200
    /\ pc' = "finally"
    /\ UNCHANGED <<soup, impl, retries, attempt, requests, outcome,
                   last_error, returned, request, scraper, drivers, served,
                   extractVars, locateVars, scrapeVars, headerVars,
                   normalizeVars>>

\* the finally block: 'if scraper: scraper.close()', and close quits the
\* driver of the scraper and swallows what quit raises
SeleniumFinally ==
    /\ pc = "finally"
    /\ drivers' = IF scraper = 0 THEN drivers
                  ELSE [drivers EXCEPT ![scraper] = "quit"]
    /\ pc' = "waiting"
    /\ served' = served + 1
    /\ UNCHANGED <<soup, impl, retries, attempt, requests, outcome,
                   last_error, returned, request, scraper, status,
                   extractVars, locateVars, scrapeVars, headerVars,
                   normalizeVars>>

NextSelenium ==
    \/ SeleniumRequest
    \/ SeleniumValidate
    \/ SeleniumConstruct
    \/ SeleniumScrape
    \/ SeleniumFinally

SpecSelenium == InitSelenium /\ [][NextSelenium]_vars

----------------------------------------------------------------------------
(* Claims about extract_table_data *)

\* the names of the header list
HeaderNames == {headers[i] : i \in 1..Len(headers)}

\* the values of a Record
Values(record) == {record[k] : k \in DOMAIN record}

\* the rows extract_table_data iterates over, once the table is found
RowsRead == RowsOf(soup[table])

\* C1: when extract_table_data has returned, every Record of data has
\* exactly the names of the final header list as its keys.
C1_KeysEqualFinalHeaders ==
    pc = "returned" => \A i \in 1..Len(data) : DOMAIN data[i] = HeaderNames

\* the header list is still empty when row k is read: the header phase
\* gave no name and no row before k that was read had a cell
EmptyHeadersAt(k) ==
    /\ BuildHeaders(soup[table], table_name, impl).headers = <<>>
    /\ \A j \in 1..(k - 1) :
          IsRepeatedHeader(RowsRead[j]) \/ RowsRead[j].cells = <<>>

\* the rows among the first n that are not flagged as repeated headers
Unflagged(n) == {k \in 1..n : ~IsRepeatedHeader(RowsRead[k])}

\* the unflagged rows among the first n that yield a Record: all but the
\* rows without cells read while the header list is empty
Kept(n) ==
    {k \in Unflagged(n) : ~(RowsRead[k].cells = <<>> /\ EmptyHeadersAt(k))}

\* the i-th row of a set of rows, in row order
Nth(rows, i) == CHOOSE k \in rows : Cardinality({j \in rows : j <= k}) = i

\* the text of the last cell of a row
LastText(row) == TextOf(row.cells[Len(row.cells)])

\* C2 as stated: after the rows are read, data holds exactly one Record
\* per row that is not flagged, in row order.
C2_OneRecordPerUnflaggedRow ==
    pc = "returned" /\ table # 0 =>
        Len(data) = Cardinality(Unflagged(Len(RowsRead)))

\* C2 as amended: at every point of the loop data holds exactly one Record
\* per row read so far that is not flagged and not a row without cells read
\* under an empty header list, in row order (the Record of a row holds the
\* text of the last cell of that row).
C2_OneRecordPerKeptRow ==
    pc \in {"rows", "returned"} /\ table # 0 =>
        /\ Len(data) = Cardinality(Kept(row_idx))
        /\ \A i \in 1..Len(data) :
              LET row == RowsRead[Nth(Kept(row_idx), i)]
              IN row.cells # <<>> => LastText(row) \in Values(data[i])

\* C2 witness: the table is read to the end, a flagged row and a row
\* without cells under an empty header list gave no Record, a later row did
C2_Witness ==
    /\ pc = "returned" /\ table # 0
    /\ Len(RowsRead) = 2
    /\ RowsRead[1].cells = <<>> /\ ~IsRepeatedHeader(RowsRead[1])
    /\ Len(data) = 1

\* C3: extract_table_data never raises.
C3_NeverRaises == pc # "raised"

----------------------------------------------------------------------------
(* Claims about find_table_by_type *)

\* possible_ids of the running call
Ids == PossibleIds(impl, table_type)

\* the call returned a table from the loop over possible_ids
ViaMatcher == pc = "returned" /\ found # 0 /\ entry_idx < Len(Ids)

\* the call went through the whole loop and returned from the fallback
ViaFallback == pc = "returned" /\ entry_idx = Len(Ids)

\* an id satisfies an entry as TABLE_MAPPING writes it: equal to a literal,
\* or matched by the whole text of a generic pattern, letter case ignored
Satisfies(entry, id) ==
    IF entry \in GenericPatterns THEN RegexSearch(entry, id) ELSE id = entry

\* C7: a table returned through the matcher list has an id that satisfies
\* one of the type's entries as written, and it satisfies the entry that
\* returned it: equality for a literal, the whole pattern for a pattern,
\* whatever character the entry starts with
C7_MatcherSoundness ==
    ViaMatcher =>
        /\ \E k \in 1..Len(Ids) : Satisfies(Ids[k], IdOf(soup[found]))
        /\ Satisfies(Ids[entry_idx + 1], IdOf(soup[found]))

\* the entries of possible_ids that select some table of the document
Hits ==
    {k \in 1..Len(Ids) : EntryResult(soup, table_type, Ids[k]) # 0}

\* C8: the table returned is the one selected by the earliest entry that
\* selects any table, no entry before the one being tried selects a table,
\* and the fallback is reached only when no entry selects a table
C8_DeclaredOrder ==
    /\ pc = "matchers" => \A k \in Hits : k > entry_idx
    /\ pc = "returned" =>
          IF Hits # {}
          THEN /\ \A k \in Hits : k >= entry_idx + 1
               /\ entry_idx + 1 \in Hits
               /\ found = EntryResult(soup, table_type, Ids[entry_idx + 1])
          ELSE entry_idx = Len(Ids)

\* a later entry selects the first table of the document and the earlier
\* entry that returned selects the second one
C8_Witness ==
    /\ ViaMatcher
    /\ impl = Api
    /\ found = 2
    /\ \E k \in Hits :
          k > entry_idx + 1 /\ EntryResult(soup, table_type, Ids[k]) = 1

\* the ids of the example of the 'geral' tables
OverallId == "stats_results_2024-2025_999_overall"
HomeAwayId == "stats_results_2024-2025_999_home_away"

\* the tables whose id the regular expression of the entry that returned
\* matches
Candidates ==
    FindAllByRegex(soup, SubSeq(Ids[entry_idx + 1], 2,
                                Len(Ids[entry_idx + 1])))

\* C9: for 'geral' the table returned never has 'home_away' in its id,
\* letter case ignored; returned from the candidates of a pattern it is the
\* first candidate in document order without 'home_away'; of the two
\* example ids the overall one is returned
C9_GeralAvoidsHomeAway ==
    (pc = "returned" /\ table_type = "geral") =>
        /\ found # 0 => ~Contains(Lower(IdOf(soup[found])), "home_away")
        /\ (ViaMatcher /\ StartsWith(Ids[entry_idx + 1], "r")) =>
              /\ found \in Candidates
              /\ \A t \in Candidates :
                    t < found => Contains(Lower(IdOf(soup[t])), "home_away")
        /\ {IdOf(soup[t]) : t \in 1..Len(soup)} = {OverallId, HomeAwayId} =>
              (found # 0 /\ IdOf(soup[found]) = OverallId)

\* a pattern of 'geral' has two candidates, the first one with 'home_away'
\* in its id, and the second one is returned
C9_Witness ==
    /\ ViaMatcher
    /\ impl = Api
    /\ table_type = "geral"
    /\ found = 2
    /\ 1 \in Candidates
    /\ Contains(Lower(IdOf(soup[1])), "home_away")

\* the substring test of a type on a lower-cased id
SubstringTest(type, id) ==
    CASE type = "geral" ->
            Contains(id, "_overall") /\ ~Contains(id, "home_away")
      [] type = "home_away" -> Contains(id, "_home_away")
      [] OTHER -> Contains(id, type)

\* C10: a call in which no entry yielded a table returns the first table in
\* document order with the class stats_table whose id passes the substring
\* test of the type, None when there is none or when the type is not a key
\* of TABLE_MAPPING, and the call never raises
C10_FallbackResult ==
    /\ pc \in {"matchers", "returned"}
    /\ ViaFallback =>
          found = IF table_type \in DOMAIN TABLE_MAPPING(impl)
                  THEN First({t \in 1..Len(soup) :
                          /\ \E j \in 1..Len(soup[t].cls) :
                                soup[t].cls[j] = "stats_table"
                          /\ SubstringTest(table_type,
                                           Lower(IdOf(soup[t])))})
                  ELSE 0

\* the fallback returned the second table: the first one passes the
\* substring test but has not the class stats_table
C10_Witness ==
    /\ ViaFallback
    /\ found = 2
    /\ SubstringTest(table_type, Lower(IdOf(soup[1])))
    /\ "stats_table" \notin {soup[1].cls[j] : j \in 1..Len(soup[1].cls)}

----------------------------------------------------------------------------
(* Claims about the table-set extraction *)

\* the Records of the extraction of the table that find_table_by_type
\* returns for a type, none when it returns None
FoundRecords(type) ==
    IF FindTableByType(soup, Api, type) = 0 THEN <<>>
    ELSE ExtractTableData(<<soup[FindTableByType(soup, Api, type)]>>,
                          soup[FindTableByType(soup, Api, type)].id,
                          type, Api).data

\* the types of the missing list of the response
Missing == {response.missing[k] : k \in 1..Len(response.missing)}

\* C4: in a response with tables, a type is in the missing list exactly when
\* the locator found no table for it or the extraction of the found table
\* gave no Record, and a type has Records in the mapping exactly when it is
\* not in the missing list
C4_MissingIffNoRecords ==
    (pc = "responded" /\ response.kind = "data") =>
        \A t \in DOMAIN response.tables :
            /\ t \in Missing <=> FoundRecords(t) = <<>>
            /\ response.tables[t] # <<>> <=> t \notin Missing

\* scrape_any_page of the API got a Document and returned
FetchedAndReturned ==
    /\ mode = "post"
    /\ pc \in {"scraped", "responded"}
    /\ result \in {"ok", "no_tables"}

\* C5 as stated: for a fetched Document the table-set extraction returns the
\* mapping and the missing list and not an error; when no type yields a
\* Record the mapping is empty and every type is missing
C5_NeverAnError ==
    FetchedAndReturned =>
        /\ result = "ok"
        /\ pc = "responded" =>
              /\ response.kind = "data"
              /\ DOMAIN tables = {} =>
                    response.missing = TableTypes(Api)

\* C5: for a fetched Document the table-set extraction returns the mapping,
\* from which the handler answers the tables and the missing types, exactly
\* when some type yields a Record; when no type yields a Record it returns
\* an error with an empty mapping and the handler answers the error
\* without tables and without missing list
C5_ErrorWhenNothingFound ==
    FetchedAndReturned =>
        /\ result = "no_tables" <=>
              \A k \in 0..(Len(TableTypes(Api)) - 1) :
                  Iteration(mode, soup, k).data = <<>>
        /\ result = "no_tables" => tables = EmptyDict
        /\ (pc = "responded" /\ result = "no_tables") =>
              response = [NoResponse EXCEPT !.status = 200, !.kind = "error"]
        /\ (pc = "responded" /\ result = "ok") =>
              /\ response.kind = "data" /\ response.success
              /\ Missing = {TableTypes(Api)[k] : k \in 1..Len(TableTypes(Api))}
                              \ DOMAIN tables

\* the handler answered an error for a fetched Document with tables of
\* which none gave a Record
C5_Witness ==
    /\ FetchedAndReturned
    /\ pc = "responded"
    /\ result = "no_tables"
    /\ response.kind = "error"
    /\ Len(soup) > 0

\* C6: the tables an entry point returned hold no Record with a key that
\* ends with _link
C6_NoLinkKeys ==
    pc = "scraped" =>
        \A n \in DOMAIN tables : \A r \in 1..Len(tables[n]) :
            \A key \in DOMAIN tables[n][r] : ~EndsWith(key, "_link")

----------------------------------------------------------------------------
(* Claims about _normalize_header_name *)

\* the header text as the exact lookup sees it: runs of white space
\* collapsed, trimmed, lower-cased
LookupKey == Strip(Lower(Join(" ", Split(header))))

\* the canonical name of a synonym key, read off the synonym table
Canonical(key) ==
    field_mapping[CHOOSE i \in 1..Len(field_mapping) :
                     field_mapping[i][1] = key][2]

\* C16: the normalizer returns the canonical name whenever the input, with
\* its white space collapsed, trimmed and lower-cased, equals a synonym key;
\* 'Matches Played' gives 'MP', 'xGD / 90' gives 'xGD/90', 'rank' gives 'Rk'
\* and the empty text gives the empty text
C16_ExactMatch ==
    pc = "normalized" =>
        /\ \A i \in 1..Len(field_mapping) :
               LookupKey = field_mapping[i][1] =>
                   normalized = Canonical(LookupKey)
        /\ header = "Matches Played" => normalized = "MP"
        /\ header = "xGD / 90" => normalized = "xGD/90"
        /\ header = "rank" => normalized = "Rk"
        /\ header = "" => normalized = ""

\* a header with extra white space and capitals has been normalized
\* through its synonym key
C16_Witness ==
    /\ pc = "normalized"
    /\ header = "  MATCHES   played "
    /\ normalized = "MP"

\* the header text has both words in it
HasBoth(a, b) == Contains(LookupKey, a) /\ Contains(LookupKey, b)

\* C17: in every normalizer implementation a header without an exact match
\* goes to the compound heuristics next, in the order pts+mp, xgd+90,
\* last+5, top+scorer, and no other rule maps it first
C17_CompoundNext ==
    (/\ pc = "normalized"
     /\ header # ""
     /\ \A i \in 1..Len(field_mapping) : LookupKey # field_mapping[i][1])
    => /\ HasBoth("pts", "mp") => normalized = "Pts/MP"
       /\ ~HasBoth("pts", "mp") /\ HasBoth("xgd", "90")
              => normalized = "xGD/90"
       /\ ~HasBoth("pts", "mp") /\ ~HasBoth("xgd", "90")
              /\ HasBoth("last", "5")
              => normalized = "Last 5"
       /\ ~HasBoth("pts", "mp") /\ ~HasBoth("xgd", "90")
              /\ ~HasBoth("last", "5") /\ HasBoth("top", "scorer")
              => normalized = "Top Team Scorer"

----------------------------------------------------------------------------
(* Claims about the header phase *)

\* the distinct non-empty texts of column c (from 1) of the filled matrix,
\* from the top row down
DistinctTexts(c) ==
    UniqueFrom([r \in 1..Len(fill.matrix) |-> fill.matrix[r][c]], 1, <<>>)

\* the columns of the filled matrix
Columns == 1..Len(headers)

\* rule (b) as the claims word it: the standard table, exactly two
\* distinct texts, the first of them a known category
RuleB(texts) ==
    /\ table_name = "standard_for"
    /\ Len(texts) = 2
    /\ texts[1] \in {"Playing Time", "Performance", "Expected",
                      "Progression", "Per 90 Minutes"}

\* rule (c): the last text holds a '/' or is one of the listed texts
RuleC(texts) ==
    \/ Contains(texts[Len(texts)], "/")
    \/ texts[Len(texts)] \in {"xG", "xGA", "xGD", "xGD/90", "Last 5"}

\* rule (d): the first text is Expected, Goals or Points and is not a
\* known category
RuleD(texts) ==
    /\ texts[1] \in {"Expected", "Goals", "Points"}
    /\ texts[1] \notin {"Playing Time", "Performance", "Expected",
                         "Progression", "Per 90 Minutes"}

\* C11: for the table named standard_for a column with exactly two distinct
\* texts whose first is a known category is named by the normalization of
\* '<first>_<last>', before any 'last text alone' rule is tried; the header
\* rows [Performance, Expected] over [Gls, xG] give Performance_Gls and
\* Expected_xG
C11_StandardPrefix ==
    pc = "combined" =>
        /\ \A c \in Columns :
               RuleB(DistinctTexts(c)) =>
                   headers[c] = Normalize(impl, DistinctTexts(c)[1] \o "_"
                                                \o DistinctTexts(c)[2])
        /\ (/\ table_name = "standard_for"
            /\ fill.matrix = << <<"Performance", "Expected">>,
                                <<"Gls", "xG">> >>)
           => headers = <<"Performance_Gls", "Expected_xG">>

\* a column of the standard table under Expected whose last text xG is one
\* of the 'last text alone' texts has got the name Expected_xG
C11_Witness ==
    /\ pc = "combined"
    /\ table_name = "standard_for"
    /\ \E c \in Columns :
          /\ DistinctTexts(c) = <<"Expected", "xG">>
          /\ RuleC(DistinctTexts(c))
          /\ headers[c] = "Expected_xG"

\* C12: every column with two or more distinct texts, however many, to
\* which none of the rules (a) to (d) applies is named by the normalization
\* of '<first> <last>'
C12_JoinFirstLast ==
    pc = "combined" =>
        \A c \in Columns :
            (/\ Len(DistinctTexts(c)) >= 2
             /\ ~RuleB(DistinctTexts(c))
             /\ ~RuleC(DistinctTexts(c))
             /\ ~RuleD(DistinctTexts(c)))
            => headers[c] =
                  Normalize(impl, DistinctTexts(c)[1] \o " "
                               \o DistinctTexts(c)[Len(DistinctTexts(c))])

\* C12 as the code has it: a column with exactly two distinct texts to
\* which none of the rules (a) to (d) applies is named by the normalization
\* of '<first> <last>'; a column with three or more distinct texts is named
\* by the normalization of its last text alone
C12_JoinOnlyTwoTexts ==
    pc = "combined" =>
        \A c \in Columns :
            /\ (/\ Len(DistinctTexts(c)) = 2
                /\ ~RuleB(DistinctTexts(c))
                /\ ~RuleC(DistinctTexts(c))
                /\ ~RuleD(DistinctTexts(c)))
               => headers[c] = Normalize(impl, DistinctTexts(c)[1] \o " "
                                                  \o DistinctTexts(c)[2])
            /\ Len(DistinctTexts(c)) >= 3
               => headers[c] =
                     Normalize(impl,
                               DistinctTexts(c)[Len(DistinctTexts(c))])

\* a column with the three distinct texts Playing Time, Starts and MP, to
\* which none of the rules (a) to (d) applies, is named MP
C12_Witness ==
    /\ pc = "combined"
    /\ \E c \in Columns :
          /\ DistinctTexts(c) = <<"Playing Time", "Starts", "MP">>
          /\ ~RuleB(DistinctTexts(c))
          /\ ~RuleC(DistinctTexts(c))
          /\ ~RuleD(DistinctTexts(c))
          /\ headers[c] = "MP"

\* C13: a column with two or more distinct texts to which rule (b) does not
\* apply is named by the normalization of its last text alone when the last
\* text holds a '/' or is one of xG, xGA, xGD, xGD/90, Last 5, and failing
\* that when the first text is one of Expected, Goals, Points and not a
\* known category
C13_LastAlone ==
    pc = "combined" =>
        \A c \in Columns :
            (/\ Len(DistinctTexts(c)) >= 2
             /\ ~RuleB(DistinctTexts(c))
             /\ RuleC(DistinctTexts(c)) \/ RuleD(DistinctTexts(c)))
            => headers[c] =
                  Normalize(impl, DistinctTexts(c)[Len(DistinctTexts(c))])

\* a column under Goals whose last text GF holds no '/' and is not a listed
\* text is named GF, next to a column named by its last text G/90
C13_Witness ==
    /\ pc = "combined"
    /\ \E c \in Columns :
          /\ DistinctTexts(c) = <<"Goals", "GF">>
          /\ ~RuleC(DistinctTexts(c))
          /\ headers[c] = "GF"

\* the width of the header matrix of a header section: the greatest sum of
\* the colspans of the cells of one of its rows
MatrixWidth(rows) ==
    CHOOSE w \in {SumColspans(rows[r].cells, 1) : r \in 1..Len(rows)} :
        \A r \in 1..Len(rows) : SumColspans(rows[r].cells, 1) <= w

\* the table was found, it has a header section with rows, and the header
\* phase of extract_table_data is over
HeaderSectionRead ==
    /\ pc \in {"rows", "returned"}
    /\ table # 0
    /\ soup[table].hasThead
    /\ soup[table].headRows # <<>>

\* C14: for every table with a header section the header list has one
\* entry per column of the header matrix, its length is max_cols, and this
\* holds for the header list the Records are keyed by
C14_LengthIsMaxCols ==
    HeaderSectionRead => Len(headers) = MatrixWidth(soup[table].headRows)

\* C14 as the code has it: when the header matrix has a column at all, the
\* header list built from the header section has max_cols entries before
\* the first body row is read, and never fewer afterwards
C14_LengthIsMaxColsBeforeRows ==
    (HeaderSectionRead /\ MatrixWidth(soup[table].headRows) > 0)
    => /\ row_idx = 0 /\ pc = "rows"
          => Len(headers) = MatrixWidth(soup[table].headRows)
       /\ Len(headers) >= MatrixWidth(soup[table].headRows)

\* the header list of a header section whose two cells span three columns
\* has three entries before the first of its body rows is read
C14_Witness ==
    /\ HeaderSectionRead
    /\ pc = "rows"
    /\ row_idx = 0
    /\ RowsOf(soup[table]) # <<>>
    /\ Len(soup[table].headRows[1].cells) = 2
    /\ MatrixWidth(soup[table].headRows) = 3
    /\ Len(headers) = 3

----------------------------------------------------------------------------
(* Claims about the cells of a body row *)

\* the cursor at which cell j of a row is read: the sum of the colspans of
\* the cells before it
CursorAt(row, j) == SumColspans(SubSeq(row.cells, 1, j - 1), 1)

\* the row read last gave the last Record of data, and no two columns have
\* the same name
LastRowKept ==
    /\ pc \in {"rows", "returned"}
    /\ table # 0
    /\ row_idx >= 1
    /\ row_idx \in Kept(row_idx)
    /\ Cardinality(HeaderNames) = Len(headers)

\* C15: a body-row cell with colspan k > 1 and text v read at cursor c
\* leaves v in the Record under each of the header positions c..c+k-1, and
\* the next cell is read at cursor c+k
C15_ColspanReplicated ==
    LastRowKept =>
        \A j \in 1..Len(RowsRead[row_idx].cells) :
            \A i \in 0..(SpanOf(RowsRead[row_idx].cells[j].colspan).val - 1) :
                CursorAt(RowsRead[row_idx], j) + i < Len(headers) =>
                    data[Len(data)][headers[CursorAt(RowsRead[row_idx], j)
                                            + i + 1]]
                        = TextOf(RowsRead[row_idx].cells[j])

----------------------------------------------------------------------------
(* Claims about repeated and failed runs of the table-set extraction *)

\* the running call is over: the handler has answered, the command-line
\* entry point has returned or raised
Finished ==
    \/ mode \in Handlers /\ pc = "responded"
    \/ mode \notin Handlers /\ mode # "" /\ pc \in {"scraped", "raised"}

\* a call that ended at control point p with the result res and the
\* response resp has run the extraction on its Document
Extracted(p, res, resp) ==
    \/ p = "raised"
    \/ resp.status = 500
    \/ res \in {"ok", "no_tables", "no_data"}

RECURSIVE FreshRun(_, _, _, _)
\* what the loop of entry point m stores for the Document doc from its
\* iteration k on, starting with stored, when nothing came before it
FreshRun(m, doc, k, stored) ==
    LET After(it) ==
            IF it.err THEN [raised |-> TRUE, tables |-> stored]
            ELSE FreshRun(m, doc, k + 1,
                          IF it.data = <<>> THEN stored
                          ELSE (IterationName(m, doc, k) :> it.data)
                                   @@ stored)
    IN IF k >= Iterations(m, doc)
       THEN [raised |-> FALSE, tables |-> stored]
       ELSE After(Iteration(m, doc, k))

C19_NoPageNoCalls ==
    (mode \in Handlers /\ result = "no_page")
    => /\ calls = {}
       /\ tables = EmptyDict
       /\ pc \in {"scraped", "responded"}
       /\ pc = "responded"
          => /\ response.kind = "error"
             /\ response.tables = EmptyDict

\* the Flask handler has answered with the error of a page that could not
\* be fetched, for a Document that holds tables
C19_Witness ==
    /\ mode = "index"
    /\ result = "no_page"
    /\ pc = "responded"
    /\ response.kind = "error"
    /\ Len(soup) = 2
    /\ calls = {}

----------------------------------------------------------------------------
(* Claims about the fill of the header matrix *)

\* the header cell that the next iteration of the loop over the cells reads
NextHeaderCell == header_rows[hrow + 1].cells[hcell + 1]

\* the grid positions (from 0) of the rectangle of a cell placed at row r
\* and column c with colspan k and rowspan m
Rectangle(r, c, k, m) ==
    {p \in (0..(Len(header_rows) - 1)) \X (0..(max_cols - 1)) :
        /\ r <= p[1] /\ p[1] < r + m
        /\ c <= p[2] /\ p[2] < c + k}

\* the step places the cell at column c: the text of the cell is in every
\* position of its rectangle that was empty, and every other position of
\* the grid is as it was
PlacesAt(c) ==
    \A p \in (0..(Len(header_rows) - 1)) \X (0..(max_cols - 1)) :
        fill'.matrix[p[1] + 1][p[2] + 1] =
            IF /\ p \in Rectangle(hrow, c,
                                  SpanOf(NextHeaderCell.colspan).val,
                                  SpanOf(NextHeaderCell.rowspan).val)
               /\ fill.matrix[p[1] + 1][p[2] + 1] = ""
            THEN TextOf(NextHeaderCell)
            ELSE fill.matrix[p[1] + 1][p[2] + 1]

\* C20: a header cell placed at (r, c) with colspan k and rowspan m writes
\* its text into every still empty position of the rectangle
\* [r, r+m) x [c, c+k) that lies inside the grid and into no other position,
\* and a position that holds a text is never overwritten by a later cell; a
\* cell Expected with colspan 3 gives three columns that hold Expected, and
\* a cell of row 0 with rowspan 2 supplies the entry of its column in row 1
C20_RectangleFill ==
    /\ [][pc = "fill" /\ hcell' = hcell + 1
             => PlacesAt(fill'.col_idx - SpanOf(NextHeaderCell.colspan).val)]_vars
    /\ [][\A r \in 1..Len(fill.matrix) : \A c \in 1..Len(fill.matrix[r]) :
             fill.matrix[r][c] # "" /\ Len(fill'.matrix) = Len(fill.matrix)
                 => fill'.matrix[r][c] = fill.matrix[r][c]]_vars
    /\ [](pc = "combined" =>
            /\ (Len(header_rows[1].cells) = 3
                /\ header_rows[1].cells[3]
                       = Cell("Expected", Attr("3"), NoAttr))
               => \A c \in 4..6 : fill.matrix[1][c] = "Expected"
            /\ (Len(header_rows) = 2
                /\ header_rows[1].cells[1]
                       = Cell("Squad", NoAttr, Attr("2")))
               => fill.matrix[2][1] = "Squad")

\* the cell Notes with colspan 2 has been placed in row 1 at column 0,
\* beside the position that the cell Squad of row 0 fills with its rowspan
C20_Witness ==
    /\ pc = "fill"
    /\ hrow = 1
    /\ hcell = 1
    /\ header_rows[2].cells[1] = Cell("Notes", Attr("2"), NoAttr)
    /\ fill.matrix = << <<"Rk", "Squad">>, <<"Notes", "Squad">> >>

\* C21: a header cell with rowspan > 1 reserves its columns in the rows it
\* spans: no cell of row r is placed at a column of row r that a cell of an
\* earlier row spans, whatever the text of that cell, the empty text
\* included
C21_RowspanReserves ==
    [][pc = "fill" /\ hcell' = hcell + 1
          => <<hrow, fill'.col_idx - SpanOf(NextHeaderCell.colspan).val>>
                 \notin fill.covered]_vars

----------------------------------------------------------------------------
(* Claims about the growth of the header list and repeated names *)

\* the row read last gave the last Record of data
LastRowRecorded ==
    /\ pc \in {"rows", "returned"}
    /\ table # 0
    /\ row_idx >= 1
    /\ row_idx \in Kept(row_idx)

\* the header positions (from 1) that cell k of a row is stored under: the
\* position of its cursor and those of its colspan inside the header list
StoredAt(row, k) ==
    {CursorAt(row, k) + i + 1 : i \in 0..(SpanOf(row.cells[k].colspan).val - 1)}
        \cap (1..Len(headers))

\* a cell of the row after cell j is stored under the name that stands at
\* the cursor of cell j
StoredOver(row, j) ==
    \E k \in (j + 1)..Len(row.cells) : \E p \in StoredAt(row, k) :
        headers[p] = headers[CursorAt(row, j) + 1]

\* the header list covers the cursor of every cell of the row read last,
\* and every entry beyond the list of the header phase is named col_<n>
\* after its index n
GrownToCover ==
    /\ \A j \in 1..Len(RowsRead[row_idx].cells) :
          CursorAt(RowsRead[row_idx], j) < Len(headers)
    /\ \A n \in Len(BuildHeaders(soup[table], table_name, impl).headers)
                    ..(Len(headers) - 1) :
          headers[n + 1] = ColName(n)

\* C22: the header list is grown in place with names col_<n> until it
\* covers the cursor, so no cell of a row is dropped: after a row is
\* processed the text of each of its cells is in the Record under the
\* header at the cursor of that cell
C22_NoCellDropped ==
    LastRowRecorded =>
        /\ GrownToCover
        /\ \A j \in 1..Len(RowsRead[row_idx].cells) :
              data[Len(data)][headers[CursorAt(RowsRead[row_idx], j) + 1]]
                  = TextOf(RowsRead[row_idx].cells[j])

\* C22 as the code has it: the text of a cell is in the Record under the
\* header at its cursor unless a later cell of the row is stored under an
\* equal name
C22_NoCellDroppedUnlessStoredOver ==
    LastRowRecorded =>
        /\ GrownToCover
        /\ \A j \in 1..Len(RowsRead[row_idx].cells) :
              ~StoredOver(RowsRead[row_idx], j) =>
                  data[Len(data)][headers[CursorAt(RowsRead[row_idx], j) + 1]]
                      = TextOf(RowsRead[row_idx].cells[j])

\* a row of three cells read under a header list of two names has grown
\* the list by col_2 and left the text of its third cell under it
C22_Witness ==
    /\ LastRowRecorded
    /\ Len(RowsRead[row_idx].cells) = 3
    /\ headers = <<"Squad", "MP", "col_2">>
    /\ data[Len(data)]["col_2"] = TextOf(RowsRead[row_idx].cells[3])

\* the header positions (from 1) that cell k of a row assigns when the row
\* is read under the header list as it stands before the row: the position
\* of its cursor, and those of its colspan that the list holds by then
AssignedAt(row, k) ==
    {CursorAt(row, k) + 1}
        \cup {CursorAt(row, k) + i + 1 :
                 i \in {n \in 1..(SpanOf(row.cells[k].colspan).val - 1) :
                          CursorAt(row, k) + n < Len(headers)}}

\* the positions that the cells of a row assign and that hold the name
\* in the header list after the row
AssignedUnder(row, name) ==
    {p \in UNION {AssignedAt(row, k) : k \in 1..Len(row.cells)} :
        headers'[p] = name}

\* C24: when the header list holds the same name at several positions, the
\* Record of a row holds for that name the text of the cell at the last of
\* those positions that the row assigns, and the Record has exactly one
\* entry for that name
C24_LastOccurrenceWins ==
    [][(pc = "rows" /\ row_idx' = row_idx + 1 /\ Len(data') = Len(data) + 1)
       => \A i \in 1..Len(headers') :
             /\ headers'[i] \in DOMAIN data'[Len(data')]
             /\ AssignedUnder(RowsRead[row_idx'], headers'[i]) # {}
                => \E k \in 1..Len(RowsRead[row_idx'].cells) :
                      /\ \A p \in AssignedUnder(RowsRead[row_idx'],
                                                 headers'[i]) :
                            \E q \in AssignedAt(RowsRead[row_idx'], k) :
                                p <= q /\ headers'[q] = headers'[i]
                      /\ data'[Len(data')][headers'[i]]
                            = TextOf(RowsRead[row_idx'].cells[k])]_vars

\* a row of two cells read under the header list [xG, xG] has given a
\* Record whose only entry holds the text of its second cell
C24_Witness ==
    /\ LastRowRecorded
    /\ headers = <<"xG", "xG">>
    /\ RowsRead[row_idx].cells = <<Plain("Milan"), Plain("10")>>
    /\ data[Len(data)] = [k \in {"xG"} |-> "10"]

----------------------------------------------------------------------------
(* Claims about the header list of a table without usable header section *)

\* the header section gave no name and the header phase is just over
NoUsableHeaderSection ==
    /\ pc = "rows"
    /\ row_idx = 0
    /\ table # 0
    /\ TheadHeaders(soup[table], table_name, impl).headers = <<>>

\* the first row of the table element
FirstRow == AllRows(soup[table])[1]

\* the first row of the table has a cell
FirstRowHasCell ==
    /\ AllRows(soup[table]) # <<>>
    /\ FirstRow.cells # <<>>

\* the text that cell j of the first row contributes: its own, or
\* col_<index> when it is empty
BaseName(j) ==
    IF TextOf(FirstRow.cells[j]) = "" THEN ColName(CursorAt(FirstRow, j))
    ELSE TextOf(FirstRow.cells[j])

\* the header list is the one synthesized from the cell count of the
\* first data row, or empty when the table has no row
SynthesizedFromDataRow ==
    IF FirstDataRow(soup[table]) = <<>> THEN headers = <<>>
    ELSE headers = [i \in 1..Len(FirstDataRow(soup[table])[1].cells) |->
                       ColName(i - 1)]

\* C23: without a usable header section the header list is built from the
\* first row, each cell giving its text (col_<index> when empty) once per
\* unit of colspan; with a colspan k > 1 the first copy is the text without
\* suffix and the k-1 further copies carry the suffix _<index>; when that
\* yields nothing the names col_0..col_{n-1} are synthesized from the cell
\* count of the first data row
C23_FirstCopyUnsuffixed ==
    NoUsableHeaderSection =>
        IF FirstRowHasCell
        THEN /\ Len(headers) = SumColspans(FirstRow.cells, 1)
             /\ \A j \in 1..Len(FirstRow.cells) :
                   \A i \in 0..(SpanOf(FirstRow.cells[j].colspan).val - 1) :
                       headers[CursorAt(FirstRow, j) + i + 1] =
                           IF i = 0 THEN BaseName(j)
                           ELSE BaseName(j) \o "_"
                                    \o ToString(CursorAt(FirstRow, j) + i)
        ELSE SynthesizedFromDataRow

\* C23 as the code has it: a cell with colspan 1 gives its text as it is,
\* and every copy of a cell with colspan k > 1, the first one included,
\* carries the suffix _<index>
C23_EveryCopySuffixed ==
    NoUsableHeaderSection =>
        IF FirstRowHasCell
        THEN /\ Len(headers) = SumColspans(FirstRow.cells, 1)
             /\ \A j \in 1..Len(FirstRow.cells) :
                   \A i \in 0..(SpanOf(FirstRow.cells[j].colspan).val - 1) :
                       headers[CursorAt(FirstRow, j) + i + 1] =
                           IF SpanOf(FirstRow.cells[j].colspan).val = 1
                           THEN BaseName(j)
                           ELSE BaseName(j) \o "_"
                                    \o ToString(CursorAt(FirstRow, j) + i)
        ELSE SynthesizedFromDataRow

\* the first row of a table without thead, a cell 5 with colspan 2 and a
\* cell 7, has given the header list 5_0, 5_1, 7
C23_Witness ==
    /\ NoUsableHeaderSection
    /\ ~soup[table].hasThead
    /\ FirstRowHasCell
    /\ Len(FirstRow.cells) = 2
    /\ headers = <<"5_0", "5_1", "7">>

----------------------------------------------------------------------------
(* Claims about the header list and the Records while the rows are read *)

\* C27: while the rows are read the header list is append-only, its
\* entries are never changed or removed; a Record that is appended has
\* exactly the names of the header list as it stands after its row as its
\* keys, so the key sets of successive Records grow under set inclusion
C27_AppendOnly ==
    /\ [][pc = "rows"
             => /\ Len(headers') >= Len(headers)
                /\ \A i \in 1..Len(headers) : headers'[i] = headers[i]]_vars
    /\ [][pc = "rows" /\ Len(data') = Len(data) + 1
             => /\ DOMAIN data'[Len(data')]
                      = {headers'[i] : i \in 1..Len(headers')}
                /\ \A i \in 1..Len(data) : data'[i] = data[i]]_vars
    /\ [](\A i \in 1..Len(data) : \A j \in i..Len(data) :
             DOMAIN data[i] \subseteq DOMAIN data[j])

\* two Records have been appended and the second one has a key that the
\* first one lacks
C27_Witness ==
    /\ pc = "returned"
    /\ Len(data) = 2
    /\ DOMAIN data[1] # DOMAIN data[2]
    /\ DOMAIN data[2] = HeaderNames

\* the rows of the body section, or of the whole table element when it has
\* no body section
BodyOrTableRows ==
    IF soup[table].hasTbody THEN soup[table].bodyRows
    ELSE soup[table].headRows \o soup[table].bodyRows

\* the table has no header section and its first row, which has a cell,
\* has supplied the header names; the rows have been read
NamesFromFirstRow ==
    /\ pc = "returned"
    /\ table # 0
    /\ ~soup[table].hasThead
    /\ FirstRowHasCell

\* C29: for a table without header section whose header names are taken
\* from its first row, the number of Records is the number of rows of the
\* body (of the whole table without body section) that are not skipped,
\* the row that supplied the names included, and the Record of that row
\* maps each name derived from it to the text of the cell the name came
\* from
C29_FirstRowIsData ==
    NamesFromFirstRow =>
        /\ Len(data) = Cardinality({k \in 1..Len(BodyOrTableRows) :
                                      ~IsRepeatedHeader(BodyOrTableRows[k])})
        /\ ~IsRepeatedHeader(BodyOrTableRows[1]) =>
              \A j \in 1..Len(FirstRow.cells) :
                  \A i \in 0..(SpanOf(FirstRow.cells[j].colspan).val - 1) :
                      data[1][headers[CursorAt(FirstRow, j) + i + 1]]
                          = TextOf(FirstRow.cells[j])

\* a table of two rows without header section has given two Records, the
\* first of them for the row Milan, 10 that the names Milan and 10 are from
C29_Witness ==
    /\ NamesFromFirstRow
    /\ Len(BodyOrTableRows) = 2
    /\ Len(data) = 2
    /\ headers[1] = "Milan"
    /\ data[1]["Milan"] = "Milan"
    /\ data[1]["10"] = "10"

----------------------------------------------------------------------------
(* Claims about the hand-over of the located table *)

\* the position of the table that find_table_by_type selects for the type
\* of iteration k of the loop of the handler
LocatedAt(k) == FindTableByType(soup, impl, TablesToExtract(mode)[k + 1])

\* the position of the table that extract_table_data reads in iteration k:
\* the first table with the id of the located one
ReadAt(k) ==
    LookupTable(soup, IdOrDefault(soup[LocatedAt(k)],
                                  "table_" \o TablesToExtract(mode)[k + 1]))

\* C28: the Records stored for a table type are extracted from the very
\* table element that find_table_by_type selected for it: the lookup by id
\* in extract_table_data yields the located element for every document
C28_ReadsLocatedTable ==
    (mode \in Handlers /\ pc \in {"names", "scraped"})
    => \A k \in 0..(type_idx - 1) :
          LocatedAt(k) # 0 => ReadAt(k) = LocatedAt(k)

----------------------------------------------------------------------------
(* Claims about get_page *)

\* what a failing attempt gets: a status 403, another status from 400 on,
\* or a request exception
Failing ==
    {"403", "http_error", "timeout", "connection_error", "request_exception"}

\* a step in which session.get is called
Requests == requests' = requests + 1

\* C25: get_page always terminates and makes at most `retries` HTTP
\* requests per call; a failing attempt is followed by another attempt while
\* attempts remain, the first successful response with a non-error page
\* ends the loop with the Document, and once the attempts are exhausted
\* no Document is returned
C25_TerminatesWithinRetries ==
    /\ <>(returned.done)
    /\ [](requests <= retries)
    /\ [][(Requests /\ outcome' \in Failing /\ requests' < retries)
             => (~returned'.done /\ pc' = "get_page" /\ attempt' < retries)]_vars
    /\ [][(Requests /\ outcome' = "ok")
             => (returned'.done /\ returned'.soup)]_vars
    /\ []((returned.done /\ requests = retries /\ outcome # "ok")
             => ~returned.soup)
    /\ []((returned.done /\ returned.soup) => outcome = "ok")

\* a call that returned without Document after MaxRetries failing attempts,
\* the last of them a status 403
C25_Witness ==
    /\ returned.done
    /\ ~returned.soup
    /\ retries = MaxRetries
    /\ requests = MaxRetries
    /\ outcome = "403"

\* get_page of the requests-based API scraper has returned from a call
\* with retries >= 1
IndexReturned == impl = Index /\ retries >= 1 /\ returned.done

\* the pair get_page returns has exactly one component that is not None,
\* and the error_info of a missing Document carries the number of the
\* attempt that produced it, which is `retries` when the attempts were
\* exhausted
PairOfGetPage ==
    IndexReturned =>
        /\ returned.soup <=> returned.error_info = NoErrorInfo
        /\ ~returned.soup =>
              /\ returned.error_info.type = outcome
              /\ returned.error_info.attempt = requests
              /\ returned.error_info.retries = retries
              /\ outcome \in Failing => returned.error_info.attempt = retries

\* scrape_any_page has returned after that call of get_page
IndexScraped == IndexReturned /\ pc = "scraped"

\* C30 (as stated): get_page returns a pair with exactly one component that
\* is not None, a missing Document comes with the number of its attempt,
\* and scrape_any_page reports an error exactly when the Document is None
C30_ErrorExactlyWithoutDocument ==
    /\ PairOfGetPage
    /\ IndexScraped => (result # "ok" <=> ~returned.soup)

\* C30 (amended): the same pair; scrape_any_page reports the error of the
\* fetch exactly when the Document is None, and with a Document it reports
\* an error exactly when no table gave Records
C30_FetchErrorExactlyWithoutDocument ==
    /\ PairOfGetPage
    /\ IndexScraped =>
          /\ result = "no_page" <=> ~returned.soup
          /\ result = "no_tables" <=> (returned.soup /\ tables = EmptyDict)
          /\ result = "ok" <=> (returned.soup /\ tables # EmptyDict)

\* scrape_any_page has reported the error of a call whose second attempt
\* of three got a page with an error title
C30_Witness ==
    /\ IndexScraped
    /\ result = "no_page"
    /\ retries = 3
    /\ outcome = "page_error"
    /\ returned.error_info.attempt = 2

----------------------------------------------------------------------------
(* Claims about the Selenium request handler *)

\* C26: the browser driver is always closed: on every path of a request,
\* every driver that was started has been quit by the time the handler
\* returns
C26_DriversQuit ==
    (pc = "waiting" /\ served > 0)
    => \A k \in 1..Len(drivers) : drivers[k] = "quit"

============================================================================
